---- MODULE Spec2Model ----
(***************************************************************************)
(* GradeJournal (src/app.js): the local-first store DB, its index, the     *)
(* merge of two store snapshots, the cloud sync and the save pipeline.     *)
(***************************************************************************)
EXTENDS Integers, Sequences, FiniteSets, TLC

(* ------------------------------ bounds --------------------------------- *)
\* timestamps (updatedAt, the wall clock) range over 1..MaxT
MaxT == 2
\* student and lesson ids of the merge inputs range over 1..MaxIds
MaxIds == 2

(* --------------------------- JavaScript values ------------------------- *)
\* a missing numeric or date property (undefined)
Undefined == 0 - 1
\* a missing object property (exportSettings)
NoObject == "undefined"

\* new Date(u || 0).getTime(): a missing updatedAt is the epoch
GetTime(u) == IF u = Undefined THEN 0 ELSE u

\* x || 1 on a number: undefined and 0 are falsy
OrOne(x) == IF x = Undefined \/ x = 0 THEN 1 ELSE x

Max2(a, b) == IF a >= b THEN a ELSE b

\* new Map(arr.map(i => [i.id, i])): has / get (the last entry of an id wins)
MapHas(arr, id) == \E i \in DOMAIN arr : arr[i].id = id

MapGet(arr, id) ==
  arr[CHOOSE i \in DOMAIN arr :
        /\ arr[i].id = id
        /\ \A j \in DOMAIN arr : arr[j].id = id => j <= i]

\* arr.find(i => i.id === id) when an element has that id: the first one
Find1(arr, id) ==
  arr[CHOOSE i \in DOMAIN arr :
        /\ arr[i].id = id
        /\ \A j \in DOMAIN arr : arr[j].id = id => i <= j]

\* the values of that Map in iteration order: keys in order of first insertion
MapValues(arr) ==
  LET F[i \in 0..Len(arr)] ==
        IF i = 0 THEN <<>>
        ELSE IF \E j \in 1..(i - 1) : arr[j].id = arr[i].id
             THEN F[i - 1]
             ELSE Append(F[i - 1], MapGet(arr, arr[i].id))
  IN F[Len(arr)]

(* ------------------------------ merging -------------------------------- *)
\* mutant of mergeArrayById: an id found on the remote side only is dropped
mergeArrayByIdLocalOnly(local, remote) ==
  LET lm == MapValues(local)
  IN [i \in DOMAIN lm |->
        IF MapHas(remote, lm[i].id)
        THEN LET ri == MapGet(remote, lm[i].id)
             IN IF GetTime(ri.updatedAt) > GetTime(lm[i].updatedAt) THEN ri ELSE lm[i]
        ELSE lm[i]]

\* mutant of mergeArrayById: on equal timestamps the remote copy is taken
mergeArrayByIdTiesRemote(local, remote) ==
  LET lm == MapValues(local)
      rm == MapValues(remote)
      fromLocal ==
        [i \in DOMAIN lm |->
           IF MapHas(remote, lm[i].id)
           THEN LET ri == MapGet(remote, lm[i].id)
                IN IF GetTime(ri.updatedAt) >= GetTime(lm[i].updatedAt) THEN ri ELSE lm[i]
           ELSE lm[i]]
      fromRemote == SelectSeq(rm, LAMBDA ri : ~MapHas(local, ri.id))
  IN fromLocal \o fromRemote

mergeArrayById(local, remote) ==
  LET lm == MapValues(local)
      rm == MapValues(remote)
      fromLocal ==
        [i \in DOMAIN lm |->
           IF MapHas(remote, lm[i].id)
           THEN LET ri == MapGet(remote, lm[i].id)
                IN IF GetTime(ri.updatedAt) > GetTime(lm[i].updatedAt) THEN ri ELSE lm[i]
           ELSE lm[i]]
      fromRemote == SelectSeq(rm, LAMBDA ri : ~MapHas(local, ri.id))
  IN fromLocal \o fromRemote

\* mutant of mergeClassroom: the remote copy also wins on equal timestamps
mergeClassroomTiesRemote(lc, rc) ==
  IF GetTime(rc.updatedAt) >= GetTime(lc.updatedAt)
  THEN [rc EXCEPT !.students = mergeArrayById(lc.students, rc.students),
                  !.lessons = mergeArrayById(lc.lessons, rc.lessons)]
  ELSE lc

\* the classroom pushed for an id present on both sides
mergeClassroom(lc, rc) ==
  IF GetTime(rc.updatedAt) > GetTime(lc.updatedAt)
  THEN [rc EXCEPT !.students = mergeArrayById(lc.students, rc.students),
                  !.lessons = mergeArrayById(lc.lessons, rc.lessons)]
  ELSE lc

\* mutant of mergeClassrooms: a classroom found on the remote side only is dropped
mergeClassroomsLocalOnly(local, remote) ==
  LET lm == MapValues(local)
  IN [i \in DOMAIN lm |->
        IF MapHas(remote, lm[i].id)
        THEN mergeClassroom(lm[i], MapGet(remote, lm[i].id))
        ELSE lm[i]]

\* merged.classrooms: allIds is the local ids, then the remote ids not yet seen
mergeClassrooms(local, remote) ==
  LET lm == MapValues(local)
      rm == MapValues(remote)
      fromLocal ==
        [i \in DOMAIN lm |->
           IF MapHas(remote, lm[i].id)
           THEN mergeClassroom(lm[i], MapGet(remote, lm[i].id))
           ELSE lm[i]]
      fromRemote == SelectSeq(rm, LAMBDA rc : ~MapHas(local, rc.id))
  IN fromLocal \o fromRemote

\* mergeData(local, remote), called when the wall clock reads now
mergeData(local, remote, now) ==
  [local EXCEPT
     !.classrooms = mergeClassrooms(local.classrooms, remote.classrooms),
     !.nextId = Max2(OrOne(local.nextId), OrOne(remote.nextId)),
     !.lastSync = now,
     !.exportSettings = IF remote.exportSettings # NoObject
                        THEN remote.exportSettings ELSE local.exportSettings]

(* ------------------------------ the store ------------------------------ *)
\* wall-clock readings of the running application range over 1..MaxNow
MaxNow == 2
\* classrooms created in one run (createClassroom's id is unique per call)
MaxClasses == 1
\* students, lessons and columns a classroom may come to hold
MaxSid == 1
MaxLid == 1
MaxCid == 4
\* syncWithCloud calls and save operations that may be in flight at one time
MaxSyncs == 2
MaxSaves == 1
\* pending-change markers the runs of the model may queue
MaxQueue == 1
\* authSubmit calls in one run
MaxSignIns == 1
\* DB.pendingChanges keeps at most this many markers
MAX_PENDING == 50

VARIABLES DB, DB_INDEX, CID, LID, editSid, editLid, confirmCb, confirmOpen,
          now, classSeq, localStorage, _st, saveTasks, saveRuns, onLine,
          supabase, syncTimer, cloud, syncTasks, authTask, signOutTask,
          signIns

svars == <<DB, DB_INDEX, CID, LID, editSid, editLid, confirmCb, confirmOpen,
           now, classSeq, localStorage, _st, saveTasks, saveRuns, onLine,
           supabase, syncTimer, cloud, syncTasks, authTask, signOutTask,
           signIns>>

\* null for CID (classroom ids are 1, 2, ...), LID, editSid, editLid
Null == 0

\* DB.user: null, the local user of authSubmit, the signed-in cloud user
NoUser == [id |-> "null", mode |-> "null"]
LocalUser == [id |-> "local_1", mode |-> "local"]
CloudUser == [id |-> "u1", mode |-> "supabase"]

\* the text a form field may hold; the handlers reject the empty one
Names == {"", "a"}

\* currentLessonMode
LessonModes == {"standard", "ielts"}

IELTS_SECTIONS == <<"Listening", "Reading", "Writing", "Speaking", "Overall Band">>

\* let DB = { ... } as the script is loaded
InitDB ==
  [classrooms |-> <<>>, nextId |-> 1, user |-> NoUser, lastSync |-> Undefined,
   syncStatus |-> "idle", pendingChanges |-> <<>>, exportSettings |-> "default"]

\* arr.map(i => i.id) as a set
Ids(arr) == {arr[i].id : i \in DOMAIN arr}

(* ------------------------------ the index ------------------------------ *)
\* mutant of rebuildIndex: the per-classroom lesson map is left as it was
rebuildIndexStaleLessons(classrooms) ==
  [classroomsById |-> [id \in Ids(classrooms) |-> MapGet(classrooms, id)],
   studentsByClassroom |->
     [id \in Ids(classrooms) |->
        LET c == MapGet(classrooms, id)
        IN [sid \in Ids(c.students) |-> MapGet(c.students, sid)]],
   lessonsByClassroom |->
     [id \in Ids(classrooms) |->
        IF id \in DOMAIN DB_INDEX.lessonsByClassroom
        THEN DB_INDEX.lessonsByClassroom[id] ELSE <<>>],
   columnsByClassroom |->
     [id \in Ids(classrooms) |->
        LET c == MapGet(classrooms, id)
        IN [cid \in Ids(c.columns) |-> MapGet(c.columns, cid)]]]

\* rebuildIndex() on DB.classrooms = classrooms
rebuildIndex(classrooms) ==
  [classroomsById |-> [id \in Ids(classrooms) |-> MapGet(classrooms, id)],
   studentsByClassroom |->
     [id \in Ids(classrooms) |->
        LET c == MapGet(classrooms, id)
        IN [sid \in Ids(c.students) |-> MapGet(c.students, sid)]],
   lessonsByClassroom |->
     [id \in Ids(classrooms) |->
        LET c == MapGet(classrooms, id)
        IN [lid \in Ids(c.lessons) |-> MapGet(c.lessons, lid)]],
   columnsByClassroom |->
     [id \in Ids(classrooms) |->
        LET c == MapGet(classrooms, id)
        IN [cid \in Ids(c.columns) |-> MapGet(c.columns, cid)]]]

\* a lookup returns <<entity>>, or <<>> for undefined
getC(id) ==
  IF id \in DOMAIN DB_INDEX.classroomsById THEN <<DB_INDEX.classroomsById[id]>> ELSE <<>>

getIn(byClassroom, classId, id) ==
  IF classId \in DOMAIN byClassroom /\ id \in DOMAIN byClassroom[classId]
  THEN <<byClassroom[classId][id]>> ELSE <<>>

getStudent(classId, sid) == getIn(DB_INDEX.studentsByClassroom, classId, sid)
getLesson(classId, lid) == getIn(DB_INDEX.lessonsByClassroom, classId, lid)
getColumn(classId, cid) == getIn(DB_INDEX.columnsByClassroom, classId, cid)

CC == getC(CID)
CL == IF CID # Null /\ LID # Null THEN getLesson(CID, LID) ELSE <<>>

(* --------------------------- local persistence ------------------------- *)
\* saveToLocalStorage() with the store db: both slots receive its JSON. The
\* storage accepts the writes (a refused write is caught and logged there).
\* The slot gj_v6_pro_last_user that signOut writes is never read: left out.
saveToLocalStorage(ls, db) == [ls EXCEPT !.main = <<db>>, !.backup = <<db>>]

\* what a setItem of saveToLocalStorage may do: the storage accepts both
\* writes, or it throws (its quota is exceeded) at the first or at the second
WriteFaults == {"none", "main", "backup"}

\* saveToLocalStorage() when the storage may refuse: a throw leaves the try
\* block, so the writes after it do not happen; the catch logs it
saveToLocalStorageOn(ls, db, fault) ==
  CASE fault = "none" -> [ls EXCEPT !.main = <<db>>, !.backup = <<db>>]
    [] fault = "main" -> ls
    [] fault = "backup" -> [ls EXCEPT !.main = <<db>>]

\* a stored text that JSON.parse rejects
Corrupt == [corrupt |-> TRUE]

\* whether JSON.parse(text) returns
Parses(text) == text # Corrupt

\* loadFromLocalStorage(): <<snapshot>>, or <<>> for null. One try block holds
\* both reads, so a JSON.parse that throws ends in the catch and in null.
loadFromLocalStorage(ls) ==
  IF ls.main # <<>>
  THEN (IF Parses(ls.main[1]) THEN ls.main ELSE <<>>)
  ELSE IF ls.backup # <<>>
  THEN (IF Parses(ls.backup[1]) THEN ls.backup ELSE <<>>)
  ELSE <<>>

\* mutant of pushPending: past 50 markers the newest one is dropped
pushPendingDropsNewest(db, badge) ==
  LET q == Append(db.pendingChanges, [timestamp |-> now, context |-> badge])
  IN [db EXCEPT !.pendingChanges =
        IF Len(q) > MAX_PENDING THEN SubSeq(q, 1, MAX_PENDING) ELSE q]

\* queuePendingChanges(badge) on the store db, up to its storage write
pushPending(db, badge) ==
  LET q == Append(db.pendingChanges, [timestamp |-> now, context |-> badge])
  IN [db EXCEPT !.pendingChanges = IF Len(q) > MAX_PENDING THEN Tail(q) ELSE q]

(* ------------------------------ the cloud ------------------------------ *)
\* the classrooms table holds the rows of the one account of the model; the
\* tables students, lessons, columns, grades, attendance and export_settings
\* are only read by the application and stay empty

\* the row saveUserDataToSupabase upserts for each classroom it iterates
PushRows(classrooms) ==
  [i \in DOMAIN classrooms |->
     [id |-> classrooms[i].id, name |-> classrooms[i].name,
      next_student_id |-> classrooms[i].nextSid,
      next_lesson_id |-> classrooms[i].nextLid,
      next_column_id |-> classrooms[i].nextCid,
      updated_at |-> now]]

\* .upsert(row) on a table keyed by id
RECURSIVE Upsert(_, _)
Upsert(table, rows) ==
  IF rows = <<>> THEN table
  ELSE LET row == Head(rows)
           put == IF row.id \in Ids(table)
                  THEN [i \in DOMAIN table |-> IF table[i].id = row.id THEN row ELSE table[i]]
                  ELSE Append(table, row)
       IN Upsert(put, Tail(rows))

\* what the awaited remote calls may answer
RemoteOutcomes == {"ok", "error"}

\* the classrooms table after saveUserDataToSupabase has returned: a failed
\* write, or a missing table, leaves it as it was
CloudAfterPush(rows, outcome) ==
  IF outcome = "ok" /\ cloud.tables
  THEN [cloud EXCEPT !.classrooms = Upsert(@, rows)] ELSE cloud

\* return { classrooms: [] }
EmptyRemote == [classrooms |-> <<>>, nextId |-> Undefined, exportSettings |-> NoObject]

\* the rows of the tables lessons and columns, which the application never
\* writes: rows of another client of the account where the cloud holds any
CloudLessons == IF "lessons" \in DOMAIN cloud THEN cloud.lessons ELSE <<>>
CloudColumns == IF "columns" \in DOMAIN cloud THEN cloud.columns ELSE <<>>

\* lessonsWithData of the classroom row c, without the data cells
LessonsOf(c) ==
  LET rows == SelectSeq(CloudLessons, LAMBDA l : l.classroom_id = c.id)
  IN [i \in DOMAIN rows |->
        [id |-> rows[i].lesson_number, topic |-> rows[i].title, mode |-> rows[i].mode,
         studentIds |-> rows[i].student_ids, updatedAt |-> rows[i].updated_at]]

\* the columns of the classroom row c: lessonId is the number of the lesson
\* row col.lesson_id names, undefined when the classroom has no such row
ColumnsOf(c) ==
  LET rows == SelectSeq(CloudColumns, LAMBDA col : col.classroom_id = c.id)
      lessons == SelectSeq(CloudLessons, LAMBDA l : l.classroom_id = c.id)
  IN [i \in DOMAIN rows |->
        [id |-> rows[i].column_number, name |-> rows[i].name,
         lessonId |-> IF rows[i].lesson_id # Null /\ MapHas(lessons, rows[i].lesson_id)
                      THEN Find1(lessons, rows[i].lesson_id).lesson_number
                      ELSE Undefined]]

\* what loadUserDataFromSupabase returns: every failure inside it is caught
loadUserDataFromSupabase(outcome) ==
  IF outcome = "ok" /\ cloud.tables /\ cloud.classrooms # <<>>
  THEN [classrooms |->
          [i \in DOMAIN cloud.classrooms |->
             LET c == cloud.classrooms[i]
             IN [id |-> c.id, name |-> c.name, students |-> <<>>,
                 lessons |-> LessonsOf(c),
                 columns |-> ColumnsOf(c), nextSid |-> c.next_student_id,
                 nextLid |-> c.next_lesson_id, nextCid |-> c.next_column_id,
                 updatedAt |-> c.updated_at]],
        nextId |-> 1,
        exportSettings |-> DB.exportSettings]
  ELSE EmptyRemote

(* ----------------------------- save pipeline --------------------------- *)
\* the condition under which saveOperation pushes to the cloud
ShouldPush(db) ==
  onLine /\ supabase /\ db.user.mode = "supabase" /\ db.user.id # "null"

\* whether saveOperation on db suspends at the push: saveUserDataToSupabase
\* awaits one upsert for each classroom
Suspends(db) == ShouldPush(db) /\ db.classrooms # <<>>

\* mutant of saveOperation: the local write happens only when nothing is pushed
saveOperationNoWriteOnPush(db, badge, cont) ==
  /\ Suspends(db) => Len(saveTasks) < MaxSaves
  /\ saveRuns' = 1 - saveRuns
  /\ localStorage' = IF ShouldPush(db) THEN localStorage
                     ELSE saveToLocalStorage(localStorage, db)
  /\ saveTasks' = IF Suspends(db)
                  THEN Append(saveTasks, [badge |-> badge, cont |-> cont,
                                          rows |-> PushRows(db.classrooms)])
                  ELSE saveTasks

\* saveOperation up to its first suspension, on the store db: the local write,
\* then the push if the conditions hold. saveRuns is the number of
\* executions so far, modulo 2.
saveOperation(db, badge, cont) ==
  /\ Suspends(db) => Len(saveTasks) < MaxSaves
  /\ saveRuns' = 1 - saveRuns
  /\ localStorage' = saveToLocalStorage(localStorage, db)
  /\ saveTasks' = IF Suspends(db)
                  THEN Append(saveTasks, [badge |-> badge, cont |-> cont,
                                          rows |-> PushRows(db.classrooms)])
                  ELSE saveTasks

\* the store after a saveOperation that did not suspend
AfterSave(db) == IF ShouldPush(db) THEN [db EXCEPT !.pendingChanges = <<>>] ELSE db

NoTimer == [armed |-> FALSE, badge |-> ""]

\* mutant of saveDB: no debounce, every call runs the save operation at once
saveDBNoDebounce(db, badge, immediate, cont) ==
  /\ _st' = NoTimer
  /\ saveOperation(db, badge, cont)

\* mutant of saveDB: an immediate call clears the timer and saves nothing
saveDBCancels(db, badge, immediate, cont) ==
  IF immediate
  THEN /\ _st' = NoTimer
       /\ UNCHANGED <<localStorage, saveTasks, saveRuns>>
  ELSE /\ _st' = [armed |-> TRUE, badge |-> badge]
       /\ UNCHANGED <<localStorage, saveTasks, saveRuns>>

\* saveDB(badge, immediate) called with the store db; cont names what awaits it
saveDB(db, badge, immediate, cont) ==
  IF immediate
  THEN /\ _st' = NoTimer
       /\ saveOperation(db, badge, cont)
  ELSE /\ _st' = [armed |-> TRUE, badge |-> badge]
       /\ UNCHANGED <<localStorage, saveTasks, saveRuns>>

\* the store after saveDB(badge, immediate) has run as far as it can
SavedDB(db, immediate) ==
  IF immediate /\ ~Suspends(db) THEN AfterSave(db) ELSE db

(* ------------------------------ handlers ------------------------------- *)
\* the home and classroom screens are shown once a user has entered, and
\* their controls are reachable while no confirm dialog covers them
Entered == DB.user # NoUser /\ authTask.pc = "idle" /\ ~confirmOpen

NoCallback == [kind |-> "none", arg |-> Null]

\* the classroom list after the object c (taken from the index) became c2:
\* the store holds that object where it holds an equal value
WithClass(c, c2) ==
  [i \in DOMAIN DB.classrooms |-> IF DB.classrooms[i] = c THEN c2 ELSE DB.classrooms[i]]

\* the end of a structural handler: rebuildIndex(); saveDB(badge, immediate)
Commit(classrooms2, badge, immediate) ==
  LET db2 == [DB EXCEPT !.classrooms = classrooms2]
  IN /\ DB' = SavedDB(db2, immediate)
     /\ DB_INDEX' = rebuildIndex(classrooms2)
     /\ saveDB(db2, badge, immediate, "none")

\* what a handler leaves alone
storeVars == <<DB, DB_INDEX, localStorage, _st, saveTasks, saveRuns>>
cursorVars == <<CID, LID, editSid, editLid>>
dialogVars == <<confirmCb, confirmOpen>>
remoteVars == <<onLine, supabase, syncTimer, cloud, syncTasks, authTask, signOutTask>>
envVars == <<now, classSeq, signIns, remoteVars>>

createClassroom(name) ==
  /\ Entered
  /\ name # ""
  /\ classSeq < MaxClasses
  /\ classSeq' = classSeq + 1
  /\ LET newClass == [id |-> classSeq + 1, name |-> name,
                      students |-> <<>>, columns |-> <<>>, lessons |-> <<>>,
                      nextSid |-> 1, nextLid |-> 1, nextCid |-> 1, updatedAt |-> now]
     IN Commit(Append(DB.classrooms, newClass), "home", FALSE)
  /\ UNCHANGED <<cursorVars, dialogVars, now, signIns, remoteVars>>

\* confirm_(title, desc, cb)
confirm_(kind, arg) ==
  /\ confirmCb' = [kind |-> kind, arg |-> arg]
  /\ confirmOpen' = TRUE
  /\ UNCHANGED <<storeVars, cursorVars, envVars>>

deleteClassConfirm(id) ==
  /\ Entered
  /\ getC(id) # <<>>
  /\ confirm_("deleteClass", id)

openClassroom(id) ==
  /\ Entered
  /\ CID' = id
  /\ UNCHANGED <<LID, editSid, editLid, storeVars, dialogVars, envVars>>

openAddStudent ==
  /\ Entered
  /\ editSid' = Null
  /\ UNCHANGED <<CID, LID, editLid, storeVars, dialogVars, envVars>>

openEditStudent(sid) ==
  /\ Entered
  /\ getStudent(CID, sid) # <<>>
  /\ editSid' = sid
  /\ UNCHANGED <<CID, LID, editLid, storeVars, dialogVars, envVars>>

\* Object.assign(student, data) on c.students.find(s => s.id === editedId)
AssignStudent(students, editedId, data) ==
  LET hits == {j \in DOMAIN students : students[j].id = editedId}
  IN [i \in DOMAIN students |->
        IF hits # {} /\ i = (CHOOSE j \in hits : \A k \in hits : j <= k)
        THEN [students[i] EXCEPT !.name = data.name, !.updatedAt = data.updatedAt]
        ELSE students[i]]

saveStudent(name) ==
  /\ Entered
  /\ name # ""
  /\ CC # <<>>
  /\ LET c == CC[1]
         data == [name |-> name, updatedAt |-> now]
     IN IF editSid # Null
        THEN Commit(WithClass(c, [c EXCEPT !.students = AssignStudent(@, editSid, data)]),
                    "class", FALSE)
        ELSE /\ c.nextSid <= MaxSid
             /\ Commit(WithClass(c, [c EXCEPT
                         !.nextSid = @ + 1,
                         !.students = Append(@, [id |-> c.nextSid, name |-> data.name,
                                                 updatedAt |-> data.updatedAt])]),
                       "class", FALSE)
  /\ UNCHANGED <<cursorVars, dialogVars, envVars>>

delStudentConfirm(sid) ==
  /\ Entered
  /\ getStudent(CID, sid) # <<>>
  /\ confirm_("delStudent", sid)

saveLesson(topic, mode) ==
  /\ Entered
  /\ topic # ""
  /\ CC # <<>>
  /\ LET c == CC[1]
         lesson == [id |-> c.nextLid, topic |-> topic, mode |-> mode,
                    studentIds |-> [i \in DOMAIN c.students |-> c.students[i].id],
                    updatedAt |-> now]
         sections == SelectSeq(IELTS_SECTIONS, LAMBDA sec : sec # "Overall Band")
         added == IF mode = "ielts"
                  THEN [i \in DOMAIN sections |->
                          [id |-> c.nextCid + i - 1, name |-> sections[i],
                           lessonId |-> lesson.id, updatedAt |-> now]]
                  ELSE <<>>
     IN /\ c.nextLid <= MaxLid
        /\ c.nextCid + Len(added) - 1 <= MaxCid
        /\ LID' = lesson.id
        /\ Commit(WithClass(c, [c EXCEPT
                    !.nextLid = @ + 1,
                    !.nextCid = @ + Len(added),
                    !.columns = @ \o added,
                    !.lessons = Append(@, lesson)]),
                  "class", FALSE)
  /\ UNCHANGED <<CID, editSid, editLid, dialogVars, envVars>>

openEditLesson(lid) ==
  /\ Entered
  /\ editLid' = lid
  /\ UNCHANGED <<CID, LID, editSid, storeVars, dialogVars, envVars>>

\* the classroom c once the lesson object l, if c holds it, became l2
ReplaceLesson(c, classId, l, l2) ==
  IF c.id = classId
  THEN [c EXCEPT !.lessons = [i \in DOMAIN @ |-> IF @[i] = l THEN l2 ELSE @[i]]]
  ELSE c

\* the index once the lesson object l of classroom classId became l2: the
\* index and the store hold the same objects
IndexWithLesson(classId, lid, l, l2) ==
  [DB_INDEX EXCEPT
     !.classroomsById = [id \in DOMAIN @ |-> ReplaceLesson(@[id], classId, l, l2)],
     !.lessonsByClassroom = [id \in DOMAIN @ |->
        IF id = classId THEN [k \in DOMAIN @[id] |-> IF k = lid THEN l2 ELSE @[id][k]]
        ELSE @[id]]]

confirmEditLesson(topic) ==
  /\ Entered
  /\ topic # ""
  /\ getLesson(CID, editLid) # <<>>
  /\ LET l == getLesson(CID, editLid)[1]
         l2 == [l EXCEPT !.topic = topic, !.updatedAt = now]
         db2 == [DB EXCEPT !.classrooms =
                   [i \in DOMAIN @ |-> ReplaceLesson(@[i], CID, l, l2)]]
     IN /\ DB' = db2
        /\ DB_INDEX' = IndexWithLesson(CID, editLid, l, l2)
        /\ saveDB(db2, "class", FALSE, "none")
  /\ UNCHANGED <<cursorVars, dialogVars, envVars>>

delLessonConfirm(lid) ==
  /\ Entered
  /\ getLesson(CID, lid) # <<>>
  /\ confirm_("delLesson", lid)

openLesson(lid) ==
  /\ Entered
  /\ getLesson(CID, lid) # <<>>
  /\ LID' = lid
  /\ UNCHANGED <<CID, editSid, editLid, storeVars, dialogVars, envVars>>

quickAddStudentToLesson(name) ==
  /\ Entered
  /\ name # ""
  /\ CC # <<>>
  /\ CL # <<>>
  /\ LET c == CC[1]
         l == CL[1]
         newStudent == [id |-> c.nextSid, name |-> name, updatedAt |-> now]
         l2 == [l EXCEPT !.studentIds = Append(@, newStudent.id), !.updatedAt = now]
         c2 == [c EXCEPT !.nextSid = @ + 1, !.students = Append(@, newStudent)]
     IN /\ c.nextSid <= MaxSid
        /\ Commit([i \in DOMAIN DB.classrooms |->
                     ReplaceLesson(WithClass(c, c2)[i], CID, l, l2)],
                  "class", FALSE)
  /\ UNCHANGED <<cursorVars, dialogVars, envVars>>

\* a column saveColumn adds has no lessonId
saveColumn(name) ==
  /\ Entered
  /\ name # ""
  /\ CC # <<>>
  /\ LET c == CC[1]
     IN /\ c.nextCid <= MaxCid
        /\ Commit(WithClass(c, [c EXCEPT
                    !.nextCid = @ + 1,
                    !.columns = Append(@, [id |-> c.nextCid, name |-> name,
                                           lessonId |-> Undefined, updatedAt |-> now])]),
                  "class", FALSE)
  /\ UNCHANGED <<cursorVars, dialogVars, envVars>>

delColumnConfirm(cid) ==
  /\ Entered
  /\ getColumn(CID, cid) # <<>>
  /\ confirm_("delColumn", cid)

\* the callbacks the delete handlers hand to confirm_
deleteClassCallback(id) ==
  /\ Commit(SelectSeq(DB.classrooms, LAMBDA cls : cls.id # id), "home", TRUE)
  /\ UNCHANGED <<cursorVars, syncTasks, authTask>>

delStudentCallback(sid) ==
  /\ IF CC = <<>>
     THEN UNCHANGED storeVars
     ELSE LET c == CC[1]
          IN Commit(WithClass(c, [c EXCEPT !.students =
                      SelectSeq(@, LAMBDA st : st.id # sid)]),
                    "class", TRUE)
  /\ UNCHANGED <<cursorVars, syncTasks, authTask>>

\* delLessonCallback without the filter of c.columns
delLessonKeepsColumns(lid) ==
  /\ IF CC = <<>>
     THEN UNCHANGED <<storeVars, LID>>
     ELSE LET c == CC[1]
          IN /\ Commit(WithClass(c, [c EXCEPT
                         !.lessons = SelectSeq(@, LAMBDA ls : ls.id # lid)]),
                       "class", TRUE)
             /\ LID' = IF LID = lid THEN Null ELSE LID
  /\ UNCHANGED <<CID, editSid, editLid, syncTasks, authTask>>

delLessonCallback(lid) ==
  /\ IF CC = <<>>
     THEN UNCHANGED <<storeVars, LID>>
     ELSE LET c == CC[1]
          IN /\ Commit(WithClass(c, [c EXCEPT
                         !.columns = SelectSeq(@, LAMBDA col : col.lessonId # lid),
                         !.lessons = SelectSeq(@, LAMBDA ls : ls.id # lid)]),
                       "class", TRUE)
             /\ LID' = IF LID = lid THEN Null ELSE LID
  /\ UNCHANGED <<CID, editSid, editLid, syncTasks, authTask>>

delColumnCallback(cid) ==
  /\ IF CC = <<>>
     THEN UNCHANGED storeVars
     ELSE LET c == CC[1]
          IN Commit(WithClass(c, [c EXCEPT !.columns =
                      SelectSeq(@, LAMBDA col : col.id # cid)]),
                    "class", TRUE)
  /\ UNCHANGED <<cursorVars, syncTasks, authTask>>

(* -------------------------------- sync --------------------------------- *)
\* syncTasks holds the syncWithCloud calls that are in flight, in the order of
\* their start: each awaits the pull or the push; failed records that a remote
\* call of this run has answered with an error

\* the two guards at the head of syncWithCloud
SyncGuard(db) ==
  /\ supabase /\ db.user.id # "null" /\ db.user.mode = "supabase"
  /\ db.syncStatus # "syncing"

\* syncWithCloud() called with the store db, up to the awaited pull
syncWithCloud(db) ==
  IF SyncGuard(db)
  THEN /\ Len(syncTasks) < MaxSyncs
       /\ syncTasks' = Append(syncTasks, [pc |-> "pull", rows |-> <<>>, failed |-> FALSE])
       /\ DB' = [db EXCEPT !.syncStatus = "syncing"]
  ELSE /\ DB' = db
       /\ UNCHANGED syncTasks

\* the sequence s without its k-th element
Without(s, k) == SubSeq(s, 1, k - 1) \o SubSeq(s, k + 1, Len(s))

\* the end of the try block: saveToLocalStorage(), then lastSync, 'idle', []
SyncDone(db) == [db EXCEPT !.lastSync = now, !.syncStatus = "idle", !.pendingChanges = <<>>]

\* the catch block: 'error', then queuePendingChanges()
SyncCaught(db) == pushPending([db EXCEPT !.syncStatus = "error"], "unknown")

\* loadUserDataFromSupabase returns to syncWithCloud: merge, rebuildIndex, and
\* the call of saveUserDataToSupabase(DB.user.id), which throws on a null user
SyncPullReturn(k, outcome) ==
  /\ k \in DOMAIN syncTasks
  /\ syncTasks[k].pc = "pull"
  /\ LET merged == mergeData(DB, loadUserDataFromSupabase(outcome), now)
     IN /\ DB_INDEX' = rebuildIndex(merged.classrooms)
        /\ IF merged.user = NoUser
           THEN /\ Len(merged.pendingChanges) < MaxQueue
                /\ DB' = SyncCaught(merged)
                /\ localStorage' = saveToLocalStorage(localStorage, SyncCaught(merged))
                /\ syncTasks' = Without(syncTasks, k)
           ELSE IF merged.classrooms = <<>>
           THEN /\ DB' = SyncDone(merged)
                /\ localStorage' = saveToLocalStorage(localStorage, merged)
                /\ syncTasks' = Without(syncTasks, k)
           ELSE /\ DB' = merged
                /\ UNCHANGED localStorage
                /\ syncTasks' = [syncTasks EXCEPT ![k] =
                                   [pc |-> "push", rows |-> PushRows(merged.classrooms),
                                    failed |-> outcome = "error"]]
  /\ UNCHANGED <<cursorVars, dialogVars, now, classSeq, signIns, _st, saveTasks,
                 saveRuns, onLine, supabase, syncTimer, cloud, authTask, signOutTask>>

\* saveUserDataToSupabase returns to syncWithCloud: it collects the errors of
\* its writes and throws none of them
SyncPushReturn(k, outcome) ==
  /\ k \in DOMAIN syncTasks
  /\ syncTasks[k].pc = "push"
  /\ cloud' = CloudAfterPush(syncTasks[k].rows, outcome)
  /\ localStorage' = saveToLocalStorage(localStorage, DB)
  /\ DB' = SyncDone(DB)
  /\ syncTasks' = Without(syncTasks, k)
  /\ UNCHANGED <<DB_INDEX, cursorVars, dialogVars, now, classSeq, signIns, _st,
                 saveTasks, saveRuns, onLine, supabase, syncTimer, authTask, signOutTask>>

\* window 'online': navigator.onLine is true again
OnlineEvent ==
  /\ ~onLine
  /\ onLine' = TRUE
  /\ IF DB.user.mode = "supabase" THEN syncWithCloud(DB) ELSE UNCHANGED <<DB, syncTasks>>
  /\ UNCHANGED <<DB_INDEX, cursorVars, dialogVars, now, classSeq, signIns,
                 localStorage, _st, saveTasks, saveRuns, supabase, syncTimer, cloud,
                 authTask, signOutTask>>

\* window 'offline'
OfflineEvent ==
  /\ onLine
  /\ onLine' = FALSE
  /\ DB' = [DB EXCEPT !.syncStatus = "offline"]
  /\ UNCHANGED <<DB_INDEX, cursorVars, dialogVars, now, classSeq, signIns,
                 localStorage, _st, saveTasks, saveRuns, supabase, syncTimer, cloud,
                 syncTasks, authTask, signOutTask>>

\* the interval startAutoSync has set
SyncTimerTick ==
  /\ syncTimer
  /\ onLine /\ DB.user.mode = "supabase"
  /\ syncWithCloud(DB)
  /\ UNCHANGED <<DB_INDEX, cursorVars, dialogVars, now, classSeq, signIns,
                 localStorage, _st, saveTasks, saveRuns, onLine, supabase, syncTimer,
                 cloud, authTask, signOutTask>>

(* ------------------------------ sign-out ------------------------------- *)
\* signOut after its awaits: DB.user = null; DB.syncStatus = 'idle'; save
SignedOut(db) == [db EXCEPT !.user = NoUser, !.syncStatus = "idle"]

\* signOut once saveDB has returned, on the store db
SignOutAfterSave(db) ==
  IF supabase /\ db.user.mode = "supabase"
  THEN /\ DB' = db
       /\ signOutTask' = "auth"
       /\ UNCHANGED localStorage
  ELSE /\ DB' = SignedOut(db)
       /\ signOutTask' = "idle"
       /\ localStorage' = saveToLocalStorage(localStorage, SignedOut(db))

\* signOut() up to await saveDB('home', true)
signOut ==
  /\ Entered
  /\ signOutTask = "idle"
  /\ syncTimer' = FALSE
  /\ saveDB(DB, "home", TRUE, "signout")
  /\ DB' = SavedDB(DB, TRUE)
  /\ signOutTask' = IF Suspends(DB) THEN "save" ELSE "saved"
  /\ UNCHANGED <<DB_INDEX, cursorVars, dialogVars, now, classSeq, signIns,
                 onLine, supabase, cloud, syncTasks, authTask>>

\* signOut resumes after a saveDB that pushed nothing
SignOutResume ==
  /\ signOutTask = "saved"
  /\ SignOutAfterSave(DB)
  /\ UNCHANGED <<DB_INDEX, cursorVars, dialogVars, now, classSeq, signIns, _st,
                 saveTasks, saveRuns, onLine, supabase, syncTimer, cloud, syncTasks,
                 authTask>>

\* supabase.auth.signOut() returns
SignOutAuthReturn ==
  /\ signOutTask = "auth"
  /\ DB' = SignedOut(DB)
  /\ signOutTask' = "idle"
  /\ localStorage' = saveToLocalStorage(localStorage, SignedOut(DB))
  /\ UNCHANGED <<DB_INDEX, cursorVars, dialogVars, now, classSeq, signIns, _st,
                 saveTasks, saveRuns, onLine, supabase, syncTimer, cloud, syncTasks,
                 authTask>>

(* ------------------------------- sign-in ------------------------------- *)
AuthIdle == [pc |-> "idle", guestData |-> <<>>]

\* authSubmit('signin') with valid fields, up to its first await
authSubmit ==
  /\ DB.user = NoUser
  /\ authTask.pc = "idle"
  /\ signOutTask = "idle"
  /\ signIns < MaxSignIns
  /\ signIns' = signIns + 1
  /\ IF supabase
     THEN /\ authTask' = [pc |-> "signin", guestData |-> <<DB>>]
          /\ UNCHANGED storeVars
     ELSE /\ DB' = [DB EXCEPT !.user = LocalUser]
          /\ saveDB([DB EXCEPT !.user = LocalUser], "home", TRUE, "none")
          /\ UNCHANGED <<DB_INDEX, authTask>>
  /\ UNCHANGED <<cursorVars, dialogVars, now, classSeq, onLine, supabase,
                 syncTimer, cloud, syncTasks, signOutTask>>

SignInOutcomes == {"ok", "invalid", "network"}

\* supabase.auth.signInWithPassword returns
AuthSignInReturn(outcome) ==
  /\ authTask.pc = "signin"
  /\ CASE outcome = "ok" ->
            /\ authTask' = [authTask EXCEPT !.pc = "pull"]
            /\ UNCHANGED storeVars
       [] outcome = "invalid" ->
            /\ authTask' = AuthIdle
            /\ UNCHANGED storeVars
       [] outcome = "network" ->
            /\ authTask' = AuthIdle
            /\ DB' = [DB EXCEPT !.user = LocalUser]
            /\ saveDB([DB EXCEPT !.user = LocalUser], "home", TRUE, "none")
            /\ UNCHANGED DB_INDEX
  /\ UNCHANGED <<cursorVars, dialogVars, now, classSeq, signIns, onLine, supabase,
                 syncTimer, cloud, syncTasks, signOutTask>>

\* loadUserDataFromSupabase returns to authSubmit: DB = mergeData(guestData,
\* cloudData), DB.user, await saveDB('home', true), then startAutoSync()
AuthPullReturn(outcome) ==
  /\ authTask.pc = "pull"
  /\ LET merged == mergeData(authTask.guestData[1], loadUserDataFromSupabase(outcome), now)
         db2 == [merged EXCEPT !.user = CloudUser]
     IN /\ DB' = SavedDB(db2, TRUE)
        /\ saveDB(db2, "home", TRUE, "auth")
        /\ IF Suspends(db2)
           THEN /\ authTask' = [pc |-> "save", guestData |-> <<>>]
                /\ UNCHANGED syncTimer
           ELSE /\ authTask' = AuthIdle
                /\ syncTimer' = TRUE
  /\ UNCHANGED <<DB_INDEX, cursorVars, dialogVars, now, classSeq, signIns, onLine,
                 supabase, cloud, syncTasks, signOutTask>>

(* --------------------------- save, continued --------------------------- *)
\* the timer saveDB(badge) has set fires: saveOperation runs
SaveTimerFire ==
  /\ _st.armed
  /\ _st' = NoTimer
  /\ saveOperation(DB, _st.badge, "none")
  /\ DB' = SavedDB(DB, TRUE)
  /\ UNCHANGED <<DB_INDEX, cursorVars, dialogVars, envVars>>

\* saveUserDataToSupabase returns to saveOperation: DB.pendingChanges = [],
\* and the caller that awaited saveDB goes on
SavePushReturn(k, outcome) ==
  /\ k \in DOMAIN saveTasks
  /\ cloud' = CloudAfterPush(saveTasks[k].rows, outcome)
  /\ saveTasks' = Without(saveTasks, k)
  /\ LET db == [DB EXCEPT !.pendingChanges = <<>>]
         cont == saveTasks[k].cont
     IN CASE cont = "none" ->
               /\ DB' = db
               /\ UNCHANGED <<localStorage, syncTimer, syncTasks, authTask, signOutTask>>
          [] cont = "auth" ->
               /\ DB' = db
               /\ authTask' = AuthIdle
               /\ syncTimer' = TRUE
               /\ UNCHANGED <<localStorage, syncTasks, signOutTask>>
          [] cont = "signout" ->
               /\ SignOutAfterSave(db)
               /\ UNCHANGED <<syncTimer, syncTasks, authTask>>
  /\ UNCHANGED <<DB_INDEX, cursorVars, dialogVars, now, classSeq, signIns, _st,
                 saveRuns, onLine, supabase>>

(* -------------------------------- dialog ------------------------------- *)
\* confirmOk(): the callback runs, then confirmCb = null and the dialog closes
confirmOk ==
  /\ confirmOpen
  /\ confirmCb.kind # "none"
  /\ CASE confirmCb.kind = "deleteClass" -> deleteClassCallback(confirmCb.arg)
       [] confirmCb.kind = "delStudent" -> delStudentCallback(confirmCb.arg)
       [] confirmCb.kind = "delLesson" -> delLessonCallback(confirmCb.arg)
       [] confirmCb.kind = "delColumn" -> delColumnCallback(confirmCb.arg)
  /\ confirmCb' = NoCallback
  /\ confirmOpen' = FALSE
  /\ UNCHANGED <<now, classSeq, signIns, onLine, supabase, syncTimer, cloud,
                 signOutTask>>

\* the dialog is closed by its cancel button or by Escape: confirmCb stays
confirmCancel ==
  /\ confirmOpen
  /\ confirmOpen' = FALSE
  /\ UNCHANGED <<confirmCb, storeVars, cursorVars, envVars>>

\* the wall clock advances
Tick ==
  /\ now < MaxNow
  /\ now' = now + 1
  /\ UNCHANGED <<storeVars, cursorVars, dialogVars, classSeq, signIns, remoteVars>>

(* ----------------------------- first state ----------------------------- *)
\* the page has loaded on a device with nothing stored: loadDB found no
\* snapshot and rebuilt the index; connectSupabaseClient has or has not found
\* a client; the cloud has or has not been provisioned with the tables
SysInit ==
  /\ DB = InitDB
  /\ DB_INDEX = rebuildIndex(InitDB.classrooms)
  /\ CID = Null /\ LID = Null /\ editSid = Null /\ editLid = Null
  /\ confirmCb = NoCallback /\ confirmOpen = FALSE
  /\ now = 1
  /\ classSeq = 0
  /\ localStorage = [main |-> <<>>, backup |-> <<>>]
  /\ _st = NoTimer
  /\ saveTasks = <<>>
  /\ saveRuns = 0
  /\ onLine = TRUE
  /\ supabase \in BOOLEAN
  /\ syncTimer = FALSE
  /\ cloud \in [tables : BOOLEAN, classrooms : {<<>>}]
  /\ syncTasks = <<>>
  /\ authTask = AuthIdle
  /\ signOutTask = "idle"
  /\ signIns = 0

(* ------------------------- merge inputs (harness) ---------------------- *)
VARIABLES mLocal, mRemote, mNow, mCalls

\* what the other harnesses observe: deb counts the saveDB calls, timer
\* firings and local writes of a run
\* qLog holds the markers enqueued since DB.pendingChanges was last empty
\* loaded holds, for each loadFromLocalStorage call, the slots it read and
\* what it returned; fetch holds a run of the chunked fetch of grades
VARIABLES deb, qLog, loaded, fetch

hvars == <<deb, qLog, loaded, fetch>>

mvars == <<mLocal, mRemote, mNow, mCalls, hvars>>

\* no saveDB call has been counted
NoCalls == [calls |-> 0, non |-> 0, wins |-> 0, pre |-> 0, imm |-> 0,
            fires |-> 0, writes |-> 0, last |-> 0]

\* the harnesses other than the one of a specification are idle
NoDebounce == deb = NoCalls
NoQueueLog == qLog = <<>>
NoLoads == loaded = <<>>
NoFetch == fetch = <<>>
NoHarness == NoDebounce /\ NoQueueLog /\ NoLoads /\ NoFetch

Times == 1..MaxT
ItemIds == 1..MaxIds

\* a student or lesson as mergeArrayById sees it: id, updatedAt, and the side
\* whose copy it is (standing for the name, topic and the other fields)
Item(id, t, side) == [id |-> id, updatedAt |-> t, from |-> side]

\* the choice of one side's array: each id absent or present with a timestamp;
\* withMissing also lets updatedAt be missing
Absent == Undefined - 1

ItemChoices(withMissing) ==
  [ItemIds -> (IF withMissing THEN Times \cup {Undefined} ELSE Times) \cup {Absent}]

\* the array of that choice, ids ascending
ItemArray(side, f) ==
  LET F[i \in 0..MaxIds] ==
        IF i = 0 THEN <<>>
        ELSE IF f[i] = Absent THEN F[i - 1]
             ELSE Append(F[i - 1], Item(i, f[i], side))
  IN F[MaxIds]

Classroom(id, t, side, students, lessons) ==
  [id |-> id, name |-> side, updatedAt |-> t,
   students |-> students, lessons |-> lessons,
   columns |-> IF side = "local" THEN <<Item(1, 1, side)>> ELSE <<>>,
   nextSid |-> IF side = "local" THEN MaxIds + 1 ELSE MaxIds + 2,
   nextLid |-> IF side = "local" THEN MaxIds + 1 ELSE MaxIds + 2,
   nextCid |-> IF side = "local" THEN 2 ELSE 1]

Snapshot(classrooms, nextId, lastSync, exportSettings) ==
  [classrooms |-> classrooms, nextId |-> nextId, lastSync |-> lastSync,
   exportSettings |-> exportSettings]

\* a fixed array of one item, for the child collection that is not varied
OneItem(side) == <<Item(1, 1, side)>>

Stamps == Times \cup {Undefined}

\* inputs holding one classroom on both sides: students varied, lessons
\* varied, and items whose updatedAt may be missing under a newer remote
StudentInputs ==
  \E lt \in Stamps, rt \in Stamps, lf \in ItemChoices(FALSE), rf \in ItemChoices(FALSE) :
    /\ mLocal = Snapshot(<<Classroom("c1", lt, "local", ItemArray("local", lf), OneItem("local"))>>,
                         1, Undefined, "local")
    /\ mRemote = Snapshot(<<Classroom("c1", rt, "remote", ItemArray("remote", rf), <<>>)>>,
                          1, Undefined, "remote")

LessonInputs ==
  \E lt \in Stamps, rt \in Stamps, lf \in ItemChoices(FALSE), rf \in ItemChoices(FALSE) :
    /\ mLocal = Snapshot(<<Classroom("c1", lt, "local", <<>>, ItemArray("local", lf))>>,
                         1, Undefined, "local")
    /\ mRemote = Snapshot(<<Classroom("c1", rt, "remote", OneItem("remote"), ItemArray("remote", rf))>>,
                          1, Undefined, "remote")

MissingStampInputs ==
  \E lf \in ItemChoices(TRUE), rf \in ItemChoices(TRUE) :
    /\ mLocal = Snapshot(<<Classroom("c1", 1, "local", ItemArray("local", lf), <<>>)>>,
                         1, Undefined, "local")
    /\ mRemote = Snapshot(<<Classroom("c1", MaxT, "remote", ItemArray("remote", rf), <<>>)>>,
                          1, Undefined, "remote")

\* lists of classrooms without children, over two ids, in either order
ClassLists(side) ==
  LET one == {<<Classroom(id, t, side, <<>>, <<>>)>> : id \in {"c1", "c2"}, t \in Stamps}
      two == {l \in {a \o b : a \in one, b \in one} : l[1].id # l[2].id}
  IN {<<>>} \cup one \cup two

ListInputs ==
  \E lc \in ClassLists("local"), rc \in ClassLists("remote"),
     ln \in {Undefined, 0, 2}, rn \in {Undefined, 1, 3}, re \in {NoObject, "remote"} :
    /\ mLocal = Snapshot(lc, ln, Undefined, "local")
    /\ mRemote = Snapshot(rc, rn, Undefined, re)

MergeInit ==
  /\ StudentInputs \/ LessonInputs \/ MissingStampInputs \/ ListInputs
  /\ mNow = 1
  /\ mCalls = <<>>
  /\ NoHarness
  /\ SysInit /\ ~supabase /\ ~cloud.tables

\* one evaluation of mergeData on the inputs (and on the swapped and the
\* doubled local input) at the present wall-clock time
MergeCall ==
  /\ Len(mCalls) < 2
  /\ mCalls' = Append(mCalls,
       [at |-> mNow,
        out |-> mergeData(mLocal, mRemote, mNow),
        swapped |-> mergeData(mRemote, mLocal, mNow),
        self |-> mergeData(mLocal, mLocal, mNow)])
  /\ UNCHANGED <<mLocal, mRemote, mNow, svars, hvars>>

ClockTick ==
  /\ Len(mCalls) = 1
  /\ mNow < MaxT
  /\ mNow' = mNow + 1
  /\ UNCHANGED <<mLocal, mRemote, mCalls, svars, hvars>>

MergeNext == MergeCall \/ ClockTick

MergeSpec == MergeInit /\ [][MergeNext]_<<svars, mvars>>

(* ---------------------------- specifications --------------------------- *)
vars == <<svars, mvars>>

\* the merge inputs are not part of the running application
NoMerge == mLocal = InitDB /\ mRemote = InitDB /\ mNow = 1 /\ mCalls = <<>>

\* the application with the cloud client loaded: sign-in, sign-out, sync,
\* saves, connectivity, and the handlers that create and delete a classroom
Init == SysInit /\ supabase /\ NoMerge /\ NoHarness

Next ==
  \/ authSubmit /\ UNCHANGED mvars
  \/ (\E outcome \in SignInOutcomes : AuthSignInReturn(outcome)) /\ UNCHANGED mvars
  \/ (\E outcome \in RemoteOutcomes : AuthPullReturn(outcome)) /\ UNCHANGED mvars
  \/ signOut /\ UNCHANGED mvars
  \/ SignOutResume /\ UNCHANGED mvars
  \/ SignOutAuthReturn /\ UNCHANGED mvars
  \/ OnlineEvent /\ UNCHANGED mvars
  \/ OfflineEvent /\ UNCHANGED mvars
  \/ SyncTimerTick /\ UNCHANGED mvars
  \/ (\E k \in 1..MaxSyncs, outcome \in RemoteOutcomes : SyncPullReturn(k, outcome))
       /\ UNCHANGED mvars
  \/ (\E k \in 1..MaxSyncs, outcome \in RemoteOutcomes : SyncPushReturn(k, outcome))
       /\ UNCHANGED mvars
  \/ SaveTimerFire /\ UNCHANGED mvars
  \/ (\E k \in 1..MaxSaves, outcome \in RemoteOutcomes : SavePushReturn(k, outcome))
       /\ UNCHANGED mvars
  \/ (\E name \in Names : createClassroom(name)) /\ UNCHANGED mvars
  \/ (\E id \in 1..MaxClasses : deleteClassConfirm(id)) /\ UNCHANGED mvars
  \/ confirmOk /\ UNCHANGED mvars
  \/ confirmCancel /\ UNCHANGED mvars
  \/ Tick /\ UNCHANGED mvars

Spec == Init /\ [][Next]_vars

\* the application on a device without a cloud client: a local user and the
\* handlers of classrooms, students, lessons and columns. The user acts
\* slower than the 150 ms of saveDB's timer: a handler runs once the timer
\* of the previous one has fired.
CrudInit == SysInit /\ ~supabase /\ ~cloud.tables /\ NoMerge /\ NoHarness

\* a handler runs once the timer of the previous one has fired
Quiet == ~_st.armed /\ UNCHANGED mvars

CrudNext ==
  \/ authSubmit /\ Quiet
  \/ (\E name \in Names : createClassroom(name)) /\ Quiet
  \/ (\E id \in 1..MaxClasses : deleteClassConfirm(id)) /\ Quiet
  \/ (\E id \in 1..MaxClasses : openClassroom(id)) /\ Quiet
  \/ openAddStudent /\ Quiet
  \/ (\E sid \in 1..MaxSid : openEditStudent(sid)) /\ Quiet
  \/ (\E name \in Names : saveStudent(name)) /\ Quiet
  \/ (\E sid \in 1..MaxSid : delStudentConfirm(sid)) /\ Quiet
  \/ (\E topic \in Names, mode \in LessonModes : saveLesson(topic, mode)) /\ Quiet
  \/ (\E lid \in 1..MaxLid : openEditLesson(lid)) /\ Quiet
  \/ (\E topic \in Names : confirmEditLesson(topic)) /\ Quiet
  \/ (\E lid \in 1..MaxLid : delLessonConfirm(lid)) /\ Quiet
  \/ (\E lid \in 1..MaxLid : openLesson(lid)) /\ Quiet
  \/ (\E name \in Names : quickAddStudentToLesson(name)) /\ Quiet
  \/ (\E name \in Names : saveColumn(name)) /\ Quiet
  \/ (\E cid \in 1..MaxCid : delColumnConfirm(cid)) /\ Quiet
  \/ confirmOk /\ Quiet
  \/ confirmCancel /\ Quiet
  \/ SaveTimerFire /\ UNCHANGED mvars
  \/ Tick /\ UNCHANGED mvars

CrudSpec == CrudInit /\ [][CrudNext]_vars

(* ---------------------- students under cloud sync ---------------------- *)
\* the application with the cloud client loaded and its tables provisioned: a
\* signed-in user who creates a classroom and adds students to it while the
\* saves and the periodic sync run
IdInit == SysInit /\ supabase /\ cloud.tables /\ NoMerge /\ NoHarness

IdNext ==
  \/ authSubmit /\ UNCHANGED mvars
  \/ AuthSignInReturn("ok") /\ UNCHANGED mvars
  \/ (\E outcome \in RemoteOutcomes : AuthPullReturn(outcome)) /\ UNCHANGED mvars
  \/ (\E name \in Names : createClassroom(name)) /\ UNCHANGED mvars
  \/ (\E id \in 1..MaxClasses : openClassroom(id)) /\ UNCHANGED mvars
  \/ openAddStudent /\ UNCHANGED mvars
  \/ (\E name \in Names : saveStudent(name)) /\ UNCHANGED mvars
  \/ SaveTimerFire /\ UNCHANGED mvars
  \/ (\E k \in 1..MaxSaves, outcome \in RemoteOutcomes : SavePushReturn(k, outcome))
       /\ UNCHANGED mvars
  \/ SyncTimerTick /\ UNCHANGED mvars
  \/ (\E k \in 1..MaxSyncs, outcome \in RemoteOutcomes : SyncPullReturn(k, outcome))
       /\ UNCHANGED mvars
  \/ (\E k \in 1..MaxSyncs, outcome \in RemoteOutcomes : SyncPushReturn(k, outcome))
       /\ UNCHANGED mvars
  \/ Tick /\ UNCHANGED mvars

IdSpec == IdInit /\ [][IdNext]_vars

(* -------------------- an account used on another device ---------------- *)
\* the id of a classroom that another device has created: createClassroom
\* draws ids no two calls share
OtherClassId == MaxClasses + 1

\* the row that device's saveUserDataToSupabase has upserted
OtherRow ==
  [id |-> OtherClassId, name |-> "a", next_student_id |-> 1,
   next_lesson_id |-> 1, next_column_id |-> 1, updated_at |-> 1]

\* the page has loaded on a device with nothing stored, the cloud client is
\* connected, and the account's classrooms table holds the row of the other
\* device
DeviceInit ==
  /\ DB = InitDB
  /\ DB_INDEX = rebuildIndex(InitDB.classrooms)
  /\ CID = Null /\ LID = Null /\ editSid = Null /\ editLid = Null
  /\ confirmCb = NoCallback /\ confirmOpen = FALSE
  /\ now = 1 /\ classSeq = 0
  /\ localStorage = [main |-> <<>>, backup |-> <<>>]
  /\ _st = NoTimer /\ saveTasks = <<>> /\ saveRuns = 0
  /\ onLine = TRUE /\ supabase = TRUE /\ syncTimer = FALSE
  /\ cloud = [tables |-> TRUE, classrooms |-> <<OtherRow>>]
  /\ syncTasks = <<>> /\ authTask = AuthIdle /\ signOutTask = "idle"
  /\ signIns = 0
  /\ NoMerge /\ NoHarness

DeviceNext ==
  \/ authSubmit /\ UNCHANGED mvars
  \/ AuthSignInReturn("ok") /\ UNCHANGED mvars
  \/ (\E outcome \in RemoteOutcomes : AuthPullReturn(outcome)) /\ UNCHANGED mvars
  \/ (\E name \in Names : createClassroom(name)) /\ UNCHANGED mvars
  \/ (\E id \in 1..OtherClassId : openClassroom(id)) /\ UNCHANGED mvars
  \/ openAddStudent /\ UNCHANGED mvars
  \/ (\E name \in Names : saveStudent(name)) /\ UNCHANGED mvars
  \/ SaveTimerFire /\ UNCHANGED mvars
  \/ (\E k \in 1..MaxSaves, outcome \in RemoteOutcomes : SavePushReturn(k, outcome))
       /\ UNCHANGED mvars
  \/ SyncTimerTick /\ UNCHANGED mvars
  \/ (\E k \in 1..MaxSyncs, outcome \in RemoteOutcomes : SyncPullReturn(k, outcome))
       /\ UNCHANGED mvars
  \/ (\E k \in 1..MaxSyncs, outcome \in RemoteOutcomes : SyncPushReturn(k, outcome))
       /\ UNCHANGED mvars
  \/ Tick /\ UNCHANGED mvars

DeviceSpec == DeviceInit /\ [][DeviceNext]_vars

(* ------- syncWithCloud with conflict detection (src/unnamed/part_000) --- *)
\* detectConflicts(local, cloud): the classrooms found on both sides whose
\* updatedAt differ
detectConflicts(local, cloudData) ==
  LET both == SelectSeq(local.classrooms, LAMBDA localC :
                /\ MapHas(cloudData.classrooms, localC.id)
                /\ localC.updatedAt # MapGet(cloudData.classrooms, localC.id).updatedAt)
  IN [i \in DOMAIN both |->
        [type |-> "classroom", id |-> both[i].id, local |-> both[i],
         cloud |-> MapGet(cloudData.classrooms, both[i].id)]]

\* what showConflictDialog resolves to
Resolutions == {"local", "cloud", "merge"}

\* the body of resolveConflicts' loop for one conflict: only 'cloud' writes,
\* DB.classrooms[index] = conflict.cloud
Resolved(classrooms, conflict, resolution) ==
  LET hits == {i \in DOMAIN classrooms : classrooms[i].id = conflict.id}
  IN IF resolution = "cloud" /\ hits # {}
     THEN [i \in DOMAIN classrooms |->
             IF i = (CHOOSE j \in hits : \A h \in hits : j <= h)
             THEN conflict.cloud ELSE classrooms[i]]
     ELSE classrooms

\* the task of a sync that goes on to saveUserDataToSupabase with the store db
PushTask(db) == [pc |-> "push", rows |-> PushRows(db.classrooms), failed |-> FALSE]

\* loadUserDataFromSupabase returns to the syncWithCloud of part_000, or
\* throws: the merge is computed, then the conflicts are detected, and with a
\* conflict the call waits for showConflictDialog, which has opened the
\* dialog when the page holds it (modal) and has resolved to 'local' when not
ConflictPullReturn(k, outcome, modal) ==
  /\ k \in DOMAIN syncTasks
  /\ syncTasks[k].pc = "pull"
  /\ IF outcome # "ok"
     THEN /\ Len(DB.pendingChanges) < MaxQueue
          /\ DB' = SyncCaught(DB)
          /\ localStorage' = saveToLocalStorage(localStorage, SyncCaught(DB))
          /\ syncTasks' = Without(syncTasks, k)
          /\ UNCHANGED DB_INDEX
     ELSE LET cloudData == loadUserDataFromSupabase(outcome)
              merged == mergeData(DB, cloudData, now)
              conflicts == detectConflicts(DB, cloudData)
          IN IF conflicts = <<>>
             THEN /\ DB' = merged
                  /\ DB_INDEX' = rebuildIndex(merged.classrooms)
                  /\ syncTasks' = [syncTasks EXCEPT ![k] = PushTask(merged)]
                  /\ UNCHANGED localStorage
             ELSE /\ syncTasks' = [syncTasks EXCEPT ![k] =
                                     [pc |-> "dialog", rows |-> <<>>, failed |-> FALSE,
                                      merged |-> merged, conflicts |-> conflicts,
                                      modal |-> modal]]
                  /\ UNCHANGED <<DB, DB_INDEX, localStorage>>
  /\ UNCHANGED <<cursorVars, dialogVars, now, classSeq, signIns, _st, saveTasks,
                 saveRuns, onLine, supabase, syncTimer, cloud, authTask, signOutTask>>

\* showConflictDialog resolves (a button of the dialog is clicked, or the
\* page holds no dialog): the resolution is applied to DB.classrooms; after
\* the last conflict syncWithCloud goes on with DB = merged, rebuildIndex()
\* and the push
ConflictResolve(k, resolution) ==
  /\ k \in DOMAIN syncTasks
  /\ syncTasks[k].pc = "dialog"
  /\ syncTasks[k].modal \/ resolution = "local"
  /\ LET task == syncTasks[k]
         classrooms2 == Resolved(DB.classrooms, Head(task.conflicts), resolution)
     IN IF Tail(task.conflicts) # <<>>
        THEN /\ DB' = [DB EXCEPT !.classrooms = classrooms2]
             /\ syncTasks' = [syncTasks EXCEPT ![k].conflicts = Tail(@)]
             /\ UNCHANGED DB_INDEX
        ELSE /\ DB' = task.merged
             /\ DB_INDEX' = rebuildIndex(task.merged.classrooms)
             /\ syncTasks' = [syncTasks EXCEPT ![k] = PushTask(task.merged)]
  /\ UNCHANGED <<cursorVars, dialogVars, now, classSeq, signIns, localStorage, _st,
                 saveTasks, saveRuns, onLine, supabase, syncTimer, cloud, authTask,
                 signOutTask>>

\* timestamps of the two copies of the shared classroom
ConflictStamps == 1..2

\* the classroom of the account as this device holds it
HeldClass(t) ==
  [id |-> OtherClassId, name |-> "a", students |-> <<>>, columns |-> <<>>,
   lessons |-> <<>>, nextSid |-> 1, nextLid |-> 1, nextCid |-> 1, updatedAt |-> t]

\* a signed-in device that has gone offline holds a classroom of the account;
\* the row of that classroom has been rewritten meanwhile (the upsert of
\* src/app.js:341 on another device keeps the id and sets updated_at)
ConflictInit ==
  /\ \E tl \in ConflictStamps, tr \in ConflictStamps :
       /\ DB = [InitDB EXCEPT !.user = CloudUser, !.syncStatus = "offline",
                              !.classrooms = <<HeldClass(tl)>>]
       /\ DB_INDEX = rebuildIndex(<<HeldClass(tl)>>)
       /\ localStorage = [main |-> <<DB>>, backup |-> <<DB>>]
       /\ cloud = [tables |-> TRUE,
                   classrooms |-> <<[OtherRow EXCEPT !.name = "b", !.updated_at = tr]>>]
  /\ CID = Null /\ LID = Null /\ editSid = Null /\ editLid = Null
  /\ confirmCb = NoCallback /\ confirmOpen = FALSE
  /\ now = 2 /\ classSeq = 0
  /\ _st = NoTimer /\ saveTasks = <<>> /\ saveRuns = 0
  /\ onLine = FALSE /\ supabase = TRUE /\ syncTimer = TRUE
  /\ syncTasks = <<>> /\ authTask = AuthIdle /\ signOutTask = "idle"
  /\ signIns = 1
  /\ NoMerge /\ NoHarness

\* the device comes back online, which starts one sync, while the user
\* creates a classroom
ConflictNext ==
  \/ OnlineEvent /\ UNCHANGED mvars
  \/ (\E k \in 1..MaxSyncs, outcome \in RemoteOutcomes, modal \in BOOLEAN :
        ConflictPullReturn(k, outcome, modal)) /\ UNCHANGED mvars
  \/ (\E k \in 1..MaxSyncs, resolution \in Resolutions : ConflictResolve(k, resolution))
       /\ UNCHANGED mvars
  \/ (\E k \in 1..MaxSyncs, outcome \in RemoteOutcomes : SyncPushReturn(k, outcome))
       /\ UNCHANGED mvars
  \/ (\E name \in Names : createClassroom(name)) /\ UNCHANGED mvars
  \/ SaveTimerFire /\ UNCHANGED mvars
  \/ (\E k \in 1..MaxSaves, outcome \in RemoteOutcomes : SavePushReturn(k, outcome))
       /\ UNCHANGED mvars

ConflictSpec == ConflictInit /\ [][ConflictNext]_vars

(* ----------------- lessons and columns under cloud sync ---------------- *)
\* what the other client of the account has stored for its classroom: an
\* IELTS lesson, a column of that lesson, a column of no lesson, and a column
\* whose lesson row has since been deleted
OtherLessonRows ==
  <<[id |-> 1, classroom_id |-> OtherClassId, lesson_number |-> 1, title |-> "a",
     mode |-> "ielts", student_ids |-> <<>>, updated_at |-> 1]>>

OtherColumnRows ==
  <<[classroom_id |-> OtherClassId, column_number |-> 1, name |-> "Listening",
     lesson_id |-> 1],
    [classroom_id |-> OtherClassId, column_number |-> 2, name |-> "a",
     lesson_id |-> Null],
    [classroom_id |-> OtherClassId, column_number |-> 3, name |-> "a",
     lesson_id |-> 2]>>

\* the page has loaded on a device with nothing stored; the account holds the
\* classroom of the other client with its lesson and columns. The user acts
\* slower than the timer of saveDB, and the periodic sync finds the previous
\* one finished.
LessonSyncInit ==
  /\ DB = InitDB
  /\ DB_INDEX = rebuildIndex(InitDB.classrooms)
  /\ CID = Null /\ LID = Null /\ editSid = Null /\ editLid = Null
  /\ confirmCb = NoCallback /\ confirmOpen = FALSE
  /\ now = 1 /\ classSeq = 0
  /\ localStorage = [main |-> <<>>, backup |-> <<>>]
  /\ _st = NoTimer /\ saveTasks = <<>> /\ saveRuns = 0
  /\ onLine = TRUE /\ supabase = TRUE /\ syncTimer = FALSE
  /\ cloud = [tables |-> TRUE,
              classrooms |-> <<[OtherRow EXCEPT !.next_lesson_id = 2,
                                                !.next_column_id = 4]>>,
              lessons |-> OtherLessonRows, columns |-> OtherColumnRows]
  /\ syncTasks = <<>> /\ authTask = AuthIdle /\ signOutTask = "idle"
  /\ signIns = 0
  /\ NoMerge /\ NoHarness

LessonSyncNext ==
  \/ authSubmit /\ Quiet
  \/ AuthSignInReturn("ok") /\ UNCHANGED mvars
  \/ (\E outcome \in RemoteOutcomes : AuthPullReturn(outcome)) /\ UNCHANGED mvars
  \/ (\E name \in Names : createClassroom(name)) /\ Quiet
  \/ (\E id \in 1..OtherClassId : openClassroom(id)) /\ Quiet
  \/ (\E topic \in Names, mode \in LessonModes : saveLesson(topic, mode)) /\ Quiet
  \/ (\E lid \in 1..MaxLid : delLessonConfirm(lid)) /\ Quiet
  \/ confirmOk /\ Quiet
  \/ SaveTimerFire /\ UNCHANGED mvars
  \/ (\E k \in 1..MaxSaves, outcome \in RemoteOutcomes : SavePushReturn(k, outcome))
       /\ UNCHANGED mvars
  \/ syncTasks = <<>> /\ SyncTimerTick /\ Quiet
  \/ (\E k \in 1..MaxSyncs, outcome \in RemoteOutcomes : SyncPullReturn(k, outcome))
       /\ UNCHANGED mvars
  \/ (\E k \in 1..MaxSyncs, outcome \in RemoteOutcomes : SyncPushReturn(k, outcome))
       /\ UNCHANGED mvars
  \/ Tick /\ UNCHANGED mvars

LessonSyncSpec == LessonSyncInit /\ [][LessonSyncNext]_vars

\* one device on an account no other client writes: the cloud starts empty
\* and holds what this device has pushed; the user adds classrooms and columns
SoloNext ==
  \/ authSubmit /\ Quiet
  \/ AuthSignInReturn("ok") /\ UNCHANGED mvars
  \/ (\E outcome \in RemoteOutcomes : AuthPullReturn(outcome)) /\ UNCHANGED mvars
  \/ (\E name \in Names : createClassroom(name)) /\ Quiet
  \/ (\E id \in 1..MaxClasses : openClassroom(id)) /\ Quiet
  \/ (\E name \in Names : saveColumn(name)) /\ Quiet
  \/ SaveTimerFire /\ UNCHANGED mvars
  \/ (\E k \in 1..MaxSaves, outcome \in RemoteOutcomes : SavePushReturn(k, outcome))
       /\ UNCHANGED mvars
  \/ SyncTimerTick /\ Quiet
  \/ (\E k \in 1..MaxSyncs, outcome \in RemoteOutcomes : SyncPullReturn(k, outcome))
       /\ UNCHANGED mvars
  \/ (\E k \in 1..MaxSyncs, outcome \in RemoteOutcomes : SyncPushReturn(k, outcome))
       /\ UNCHANGED mvars
  \/ Tick /\ UNCHANGED mvars

SoloSpec == IdInit /\ [][SoloNext]_vars

(* ------------------------- the debounce of saveDB ---------------------- *)
\* saveDB calls counted in one run
MaxCalls == 6

\* the application of CrudSpec with a user who may act faster than the timer
\* of saveDB: the handlers of classrooms and students, each saveDB call, timer
\* firing and execution of the save operation counted in deb
DebounceInit == SysInit /\ ~supabase /\ ~cloud.tables /\ NoMerge /\ NoHarness

MergeIdle == UNCHANGED <<mLocal, mRemote, mNow, mCalls>>

\* the executions of the save operation in this step
Ran == IF saveRuns' # saveRuns THEN 1 ELSE 0

\* this step holds no saveDB call
NoCall == deb' = [deb EXCEPT !.writes = @ + Ran] /\ MergeIdle /\ UNCHANGED <<qLog, loaded, fetch>>

\* this step holds one saveDB(badge) call: it opens a window of 150 ms when
\* none is open
DebouncedCall ==
  /\ deb.calls < MaxCalls
  /\ deb' = [deb EXCEPT !.calls = @ + 1, !.non = @ + 1,
                        !.wins = IF deb.non = 0 THEN @ + 1 ELSE @,
                        !.writes = @ + Ran]
  /\ MergeIdle /\ UNCHANGED <<qLog, loaded, fetch>>

\* this step holds one saveDB(badge, true) call: it clears the timer, which
\* ends the open window without a firing
ImmediateCall ==
  /\ deb.calls < MaxCalls
  /\ deb' = [deb EXCEPT !.calls = @ + 1, !.imm = @ + 1, !.non = 0,
                        !.pre = IF deb.non > 0 THEN @ + 1 ELSE @,
                        !.writes = @ + Ran]
  /\ MergeIdle /\ UNCHANGED <<qLog, loaded, fetch>>

\* this step is the firing of the timer: it serves the calls of its window
TimerFired ==
  /\ deb' = [deb EXCEPT !.fires = @ + 1, !.non = 0, !.last = deb.non,
                        !.writes = @ + Ran]
  /\ MergeIdle /\ UNCHANGED <<qLog, loaded, fetch>>

DebounceNext ==
  \/ authSubmit /\ ImmediateCall
  \/ (\E name \in Names : createClassroom(name)) /\ DebouncedCall
  \/ (\E id \in 1..MaxClasses : openClassroom(id)) /\ NoCall
  \/ openAddStudent /\ NoCall
  \/ (\E sid \in 1..MaxSid : openEditStudent(sid)) /\ NoCall
  \/ (\E name \in Names : saveStudent(name)) /\ DebouncedCall
  \/ (\E sid \in 1..MaxSid : delStudentConfirm(sid)) /\ NoCall
  \/ confirmOk /\ ImmediateCall
  \/ confirmCancel /\ NoCall
  \/ SaveTimerFire /\ TimerFired

DebounceSpec == DebounceInit /\ [][DebounceNext]_vars

\* the page stays open and the timer saveDB has set fires: setTimeout runs
\* saveOperation once its 150 ms have passed without a clearTimeout
DebounceLive == DebounceSpec /\ WF_vars(SaveTimerFire /\ TimerFired)

(* ----------------------- the pending-change queue ---------------------- *)
\* markers enqueued since the queue was last empty, and the last reading of
\* the wall clock at which one is enqueued
MaxEnqueues == 60
MaxStamp == 64
\* the first calls since the queue was empty come from saveDB with a badge or
\* from syncWithCloud without one; the later ones from syncWithCloud
MaxBadged == 2

QueueInit == SysInit /\ ~supabase /\ ~cloud.tables /\ NoMerge /\ NoHarness

\* queuePendingChanges(badge): the marker, the eviction, the storage write.
\* Each call reads a later wall-clock time, so that the markers differ.
queuePendingChanges(badge) ==
  /\ Len(qLog) < MaxEnqueues
  /\ now <= MaxStamp
  /\ LET context == IF badge = "" THEN "unknown" ELSE badge
     IN /\ DB' = pushPending(DB, context)
        /\ localStorage' = saveToLocalStorage(localStorage, pushPending(DB, context))
        /\ qLog' = Append(qLog, [timestamp |-> now, context |-> context])
  /\ now' = now + 1
  /\ UNCHANGED <<DB_INDEX, cursorVars, dialogVars, classSeq, signIns, _st, saveTasks,
                 saveRuns, remoteVars, deb, loaded,
                 fetch>>
  /\ MergeIdle

\* DB.pendingChanges = [] at the end of a push or of a sync
QueueCleared ==
  /\ qLog # <<>>
  /\ DB' = [DB EXCEPT !.pendingChanges = <<>>]
  /\ qLog' = <<>>
  /\ UNCHANGED <<DB_INDEX, cursorVars, dialogVars, now, classSeq, signIns,
                 localStorage, _st, saveTasks, saveRuns, remoteVars, deb, loaded,
                 fetch>>
  /\ MergeIdle

QueueNext ==
  \/ \E badge \in (IF Len(qLog) < MaxBadged THEN {"", "class"} ELSE {""}) :
       queuePendingChanges(badge)
  \/ QueueCleared

QueueSpec == QueueInit /\ [][QueueNext]_vars

(* ------------------------------ attendance ----------------------------- *)
\* students and lessons of the classroom whose attendance is counted
MaxStatStudents == 2
MaxStatLessons == 2
\* students with entries in the stored lessons, and attendance marks made
MaxStatEntries == 1
MaxMarks == 1

\* whether the object o has the property f
Has(o, f) == f \in DOMAIN o

\* arr.includes(x)
Includes(arr, x) == \E i \in DOMAIN arr : arr[i] = x

\* (l.data || {})[`att_${sid}`] || 'present': data maps the student ids that
\* have an att_ entry to its value
AttVal(l, sid) ==
  IF Has(l, "data") /\ sid \in DOMAIN l.data /\ l.data[sid] # ""
  THEN l.data[sid] ELSE "present"

\* the forEach of studentStats over the lessons from the k-th on, with the
\* counters so far
RECURSIVE CountLessons(_, _, _, _)
CountLessons(lessons, sid, k, acc) ==
  IF k > Len(lessons) THEN acc
  ELSE LET l == lessons[k]
       IN IF Has(l, "studentIds") /\ ~Includes(l.studentIds, sid)
          THEN CountLessons(lessons, sid, k + 1, acc)
          ELSE LET val == AttVal(l, sid)
               IN CountLessons(lessons, sid, k + 1,
                    IF val = "present" THEN [acc EXCEPT !.present = @ + 1]
                    ELSE IF val = "late" THEN [acc EXCEPT !.late = @ + 1]
                    ELSE [acc EXCEPT !.absent = @ + 1])

\* mutant of studentStatsOf: a lesson without an entry counts as absent
studentStatsNoEntryAbsent(c, sid) ==
  LET n == CountLessons(c.lessons, sid, 1, [present |-> 0, late |-> 0, absent |-> 0])
      none == Cardinality({k \in DOMAIN c.lessons :
                 /\ ~Has(c.lessons[k], "studentIds") \/ Includes(c.lessons[k].studentIds, sid)
                 /\ ~(Has(c.lessons[k], "data") /\ sid \in DOMAIN c.lessons[k].data)})
  IN [present |-> n.present - none, late |-> n.late, absent |-> n.absent + none,
      attended |-> n.present - none + n.late,
      total |-> Len(SelectSeq(c.lessons,
                  LAMBDA l : ~Has(l, "studentIds") \/ Includes(l.studentIds, sid)))]

\* studentStats(sid) for the classroom object c
studentStatsOf(c, sid) ==
  LET n == CountLessons(c.lessons, sid, 1, [present |-> 0, late |-> 0, absent |-> 0])
  IN [present |-> n.present, late |-> n.late, absent |-> n.absent,
      attended |-> n.present + n.late,
      total |-> Len(SelectSeq(c.lessons,
                  LAMBDA l : ~Has(l, "studentIds") \/ Includes(l.studentIds, sid)))]

\* studentStats(sid)
studentStats(sid) ==
  IF CC = <<>>
  THEN [present |-> 0, late |-> 0, absent |-> 0, attended |-> 0, total |-> 0]
  ELSE studentStatsOf(CC[1], sid)

AttStatuses == {"present", "late", "absent"}

\* the lesson object l after l.data[`att_${sid}`] = status; l.updatedAt = now
WithAtt(l, sid, status) ==
  LET old == IF Has(l, "data") THEN l.data ELSE <<>>
      data == [s \in DOMAIN old \cup {sid} |-> IF s = sid THEN status ELSE old[s]]
  IN [f \in DOMAIN l \cup {"data"} |->
        IF f = "data" THEN data ELSE IF f = "updatedAt" THEN now ELSE l[f]]

\* setAtt(sid, status)
setAtt(sid, status) ==
  /\ Entered
  /\ CL # <<>>
  /\ LET l == CL[1]
         l2 == WithAtt(l, sid, status)
         db2 == [DB EXCEPT !.classrooms =
                   [i \in DOMAIN @ |-> ReplaceLesson(@[i], CID, l, l2)]]
     IN /\ DB' = db2
        /\ DB_INDEX' = IndexWithLesson(CID, LID, l, l2)
        /\ saveDB(db2, "lesson", FALSE, "none")
  /\ UNCHANGED <<cursorVars, dialogVars, envVars>>

\* the att_ entries a stored lesson may hold for the students 1..n
AttData(n) ==
  UNION {[S -> AttStatuses] : S \in SUBSET (1..n)}

\* the lessons a stored classroom may hold: studentIds missing (a lesson of
\* an older version), empty, or naming some students; data missing or holding
\* entries
StoredLessons(id) ==
  LET base == [id |-> id, topic |-> "a", mode |-> "standard", updatedAt |-> 0]
      ids == {<<>>, <<1>>} \cup {[i \in 1..MaxStatStudents |-> i]}
      plain == {base}
      withIds == {[f \in DOMAIN base \cup {"studentIds"} |->
                     IF f = "studentIds" THEN x ELSE base[f]] : x \in ids}
  IN (plain \cup withIds) \cup
     {[f \in DOMAIN b \cup {"data"} |-> IF f = "data" THEN d ELSE b[f]] :
        b \in plain \cup withIds, d \in AttData(MaxStatEntries)}

\* the store a signed-in local user has loaded: one classroom, its students
\* and its lessons as earlier sessions left them
StatsStore(lessons) ==
  [InitDB EXCEPT
     !.user = LocalUser,
     !.classrooms =
        <<[id |-> 1, name |-> "a",
           students |-> [i \in 1..MaxStatStudents |->
                           [id |-> i, name |-> "a", updatedAt |-> 0]],
           columns |-> <<>>, lessons |-> lessons,
           nextSid |-> MaxStatStudents + 1, nextLid |-> MaxStatLessons + 1,
           nextCid |-> 1, updatedAt |-> 0]>>]

\* the classroom of the loaded store is open
StatsInit ==
  /\ \E lessons \in [1..MaxStatLessons -> StoredLessons(1) \cup StoredLessons(2)] :
       /\ \A k \in 1..MaxStatLessons : lessons[k].id = k
       /\ DB = StatsStore(lessons)
       /\ DB_INDEX = rebuildIndex(StatsStore(lessons).classrooms)
  /\ CID = 1 /\ LID = Null /\ editSid = Null /\ editLid = Null
  /\ confirmCb = NoCallback /\ confirmOpen = FALSE
  /\ now = 1 /\ classSeq = 1
  /\ localStorage = [main |-> <<DB>>, backup |-> <<DB>>]
  /\ _st = NoTimer /\ saveTasks = <<>> /\ saveRuns = 0
  /\ onLine = TRUE /\ supabase = FALSE /\ syncTimer = FALSE
  /\ cloud = [tables |-> FALSE, classrooms |-> <<>>]
  /\ syncTasks = <<>> /\ authTask = AuthIdle /\ signOutTask = "idle"
  /\ signIns = 0
  /\ NoMerge /\ NoHarness

StatsNext ==
  \/ (\E lid \in 1..MaxStatLessons : openLesson(lid)) /\ NoCall
  \/ /\ deb.calls < MaxMarks
     /\ \E sid \in 1..MaxStatStudents, status \in AttStatuses : setAtt(sid, status)
     /\ DebouncedCall
  \/ SaveTimerFire /\ TimerFired

StatsSpec == StatsInit /\ [][StatsNext]_vars

(* ------------------- the chunked fetch of the cloud pull ---------------- *)
BATCH_SIZE == 25

\* lesson rows the pull may have received
MaxLessonIds == 60

\* arr.slice(a, b) with 0 <= a <= b
slice(arr, a, b) ==
  IF a >= Len(arr) THEN <<>>
  ELSE SubSeq(arr, a + 1, IF b < Len(arr) THEN b ELSE Len(arr))

\* mutant of Batch: the chunk stops one id short
BatchShort(lessonIds, i) == slice(lessonIds, i, i + BATCH_SIZE - 1)

\* const batch = lessonIds.slice(i, i + BATCH_SIZE)
Batch(lessonIds, i) == slice(lessonIds, i, i + BATCH_SIZE)

\* the ids of arr
Range(arr) == {arr[i] : i \in DOMAIN arr}

\* supabase.from(table).select('*').in('lesson_id', batch) answered by the
\* remote: the rows of the table whose lesson_id is in batch, in table order
SelectIn(table, batch) ==
  SelectSeq(table, LAMBDA row : row.lesson_id \in Range(batch))

\* what a remote table may hold for n lessons of this user: rows of these
\* lessons and of two lessons of other users, each row with its own key, no,
\* one or two rows per lesson, the rows of a lesson apart from each other
TableKinds == {"one", "mixed"}
RemoteTable(n, kind) ==
  LET m == n + 2
      all == [j \in 1..(2 * m) |-> [lesson_id |-> ((j - 1) % m) + 1, id |-> j]]
  IN SelectSeq(all, LAMBDA row :
       IF kind = "one" THEN row.id <= m
       ELSE (row.id <= m /\ row.lesson_id % 3 # 0) \/ (row.id > m /\ row.lesson_id % 3 = 2))

\* lessons.data?.map(l => l.id) for n lesson rows, in either order
IdOrders == {"asc", "desc"}
LessonIds(n, order) == [k \in 1..n |-> IF order = "asc" THEN k ELSE n + 1 - k]

\* loadUserDataFromSupabase has received the lesson rows and is about to
\* enter the loop
FetchInit ==
  /\ SysInit /\ supabase /\ cloud.tables /\ NoMerge
  /\ NoDebounce /\ NoQueueLog /\ NoLoads
  /\ \E n \in 0..MaxLessonIds, order \in IdOrders, kind \in TableKinds :
       fetch = [lessonIds |-> LessonIds(n, order),
                gradesTable |-> RemoteTable(n, kind),
                attendanceTable |-> RemoteTable(n, IF kind = "one" THEN "mixed" ELSE "one"),
                i |-> 0, batches |-> <<>>,
                gradeQueries |-> 0, attendanceQueries |-> 0,
                grades |-> <<>>, attendance |-> <<>>, failed |-> FALSE]

\* one iteration of the loop: both queries for the chunk at i are issued and
\* answered; a query that fails answers { data: null, error }, and
\* gb.data || [] adds nothing
FetchBatch(gOutcome, aOutcome) ==
  /\ fetch # <<>>
  /\ fetch.i < Len(fetch.lessonIds)
  /\ LET batch == Batch(fetch.lessonIds, fetch.i)
         gb == IF gOutcome = "ok" THEN SelectIn(fetch.gradesTable, batch) ELSE <<>>
         ab == IF aOutcome = "ok" THEN SelectIn(fetch.attendanceTable, batch) ELSE <<>>
     IN fetch' = [fetch EXCEPT
                    !.i = @ + BATCH_SIZE,
                    !.batches = Append(@, batch),
                    !.gradeQueries = @ + 1,
                    !.attendanceQueries = @ + 1,
                    !.grades = @ \o gb,
                    !.attendance = @ \o ab,
                    !.failed = @ \/ gOutcome # "ok" \/ aOutcome # "ok"]
  /\ MergeIdle
  /\ UNCHANGED <<svars, deb, qLog, loaded>>

FetchNext ==
  \/ FetchBatch("ok", "ok")
  \/ \E gOutcome, aOutcome \in RemoteOutcomes :
       (gOutcome # "ok" \/ aOutcome # "ok") /\ FetchBatch(gOutcome, aOutcome)

FetchSpec == FetchInit /\ [][FetchNext]_vars

(* --------------------------- the storage slots -------------------------- *)
\* loadFromLocalStorage calls logged in one run
MaxLoads == 2

\* snapshots a slot may hold from earlier sessions
StoredA == [InitDB EXCEPT !.user = LocalUser]
StoredB == [InitDB EXCEPT !.user = LocalUser, !.lastSync = 1]

\* a slot is absent, holds a text that does not parse, or holds a snapshot
Slots == {<<>>, <<Corrupt>>, <<StoredA>>, <<StoredB>>}

\* the page is loaded over a storage left by earlier sessions, by a partial
\* write, or damaged
StorageInit ==
  /\ DB = InitDB
  /\ DB_INDEX = rebuildIndex(InitDB.classrooms)
  /\ CID = Null /\ LID = Null /\ editSid = Null /\ editLid = Null
  /\ confirmCb = NoCallback /\ confirmOpen = FALSE
  /\ now = 1 /\ classSeq = 0
  /\ localStorage \in [main : Slots, backup : Slots]
  /\ _st = NoTimer /\ saveTasks = <<>> /\ saveRuns = 0
  /\ onLine = TRUE /\ supabase = FALSE /\ syncTimer = FALSE
  /\ cloud = [tables |-> FALSE, classrooms |-> <<>>]
  /\ syncTasks = <<>> /\ authTask = AuthIdle /\ signOutTask = "idle"
  /\ signIns = 0
  /\ NoMerge /\ NoHarness

\* loadDB(): const localData = loadFromLocalStorage(); if (localData) DB =
\* localData; ...; rebuildIndex()
loadDB ==
  /\ Len(loaded) < MaxLoads
  /\ LET localData == loadFromLocalStorage(localStorage)
         db == IF localData # <<>> THEN localData[1] ELSE DB
     IN /\ DB' = db
        /\ DB_INDEX' = rebuildIndex(db.classrooms)
        /\ loaded' = Append(loaded, [slots |-> localStorage, data |-> localData])
  /\ UNCHANGED <<cursorVars, dialogVars, now, classSeq, signIns, localStorage,
                 _st, saveTasks, saveRuns, remoteVars, deb, qLog, fetch>>
  /\ MergeIdle

\* a saveToLocalStorage() call during which the storage may throw
StorageWrite(fault) ==
  /\ localStorage' = saveToLocalStorageOn(localStorage, DB, fault)
  /\ UNCHANGED <<DB, DB_INDEX, cursorVars, dialogVars, now, classSeq, signIns,
                 _st, saveTasks, saveRuns, remoteVars, hvars>>
  /\ MergeIdle

StorageNext ==
  \/ loadDB
  \/ \E fault \in WriteFaults : StorageWrite(fault)

StorageSpec == StorageInit /\ [][StorageNext]_vars

(* ----------------------------- page reload ----------------------------- *)
\* the page is closed and opened again. beforeunload writes the store when
\* markers are queued; the timers and the awaited calls of the closed page
\* are gone with it; the new page starts from the default store, loadDB
\* adopts the stored snapshot as it is and rebuilds the index, and enterApp
\* shows the home screen without starting the sync interval. online is
\* navigator.onLine of the new page.
PageReload(online) ==
  /\ Len(loaded) < MaxLoads
  /\ LET stored == IF DB.pendingChanges # <<>>
                   THEN saveToLocalStorage(localStorage, DB) ELSE localStorage
         localData == loadFromLocalStorage(stored)
         db == IF localData # <<>> THEN localData[1] ELSE InitDB
     IN /\ localStorage' = stored
        /\ DB' = db
        /\ DB_INDEX' = rebuildIndex(db.classrooms)
        /\ loaded' = Append(loaded, [slots |-> stored, data |-> localData])
  /\ CID' = Null /\ LID' = Null /\ editSid' = Null /\ editLid' = Null
  /\ confirmCb' = NoCallback /\ confirmOpen' = FALSE
  /\ _st' = NoTimer /\ saveTasks' = <<>>
  /\ syncTasks' = <<>> /\ authTask' = AuthIdle /\ signOutTask' = "idle"
  /\ syncTimer' = FALSE
  /\ onLine' = online
  /\ UNCHANGED <<now, classSeq, signIns, saveRuns, supabase, cloud, deb, qLog, fetch>>
  /\ MergeIdle

\* a device that signs in, works, syncs, loses and regains its connection,
\* and whose page is reloaded
ReloadNext ==
  \/ authSubmit /\ Quiet
  \/ AuthSignInReturn("ok") /\ UNCHANGED mvars
  \/ (\E outcome \in RemoteOutcomes : AuthPullReturn(outcome)) /\ UNCHANGED mvars
  \/ (\E name \in Names : createClassroom(name)) /\ Quiet
  \/ SaveTimerFire /\ UNCHANGED mvars
  \/ (\E k \in 1..MaxSaves, outcome \in RemoteOutcomes : SavePushReturn(k, outcome))
       /\ UNCHANGED mvars
  \/ SyncTimerTick /\ Quiet
  \/ (\E k \in 1..MaxSyncs, outcome \in RemoteOutcomes : SyncPullReturn(k, outcome))
       /\ UNCHANGED mvars
  \/ (\E k \in 1..MaxSyncs, outcome \in RemoteOutcomes : SyncPushReturn(k, outcome))
       /\ UNCHANGED mvars
  \/ OnlineEvent /\ UNCHANGED mvars
  \/ OfflineEvent /\ UNCHANGED mvars
  \/ \E online \in BOOLEAN : PageReload(online)
  \/ Tick /\ UNCHANGED mvars

ReloadSpec == IdInit /\ [][ReloadNext]_vars

(* ------------------------ claims about mergeData ----------------------- *)
ById(arr, id) == arr[CHOOSE i \in DOMAIN arr : arr[i].id = id]

BothSides == Ids(mLocal.classrooms) \cap Ids(mRemote.classrooms)

RemoteNewer(id) ==
  GetTime(ById(mRemote.classrooms, id).updatedAt) > GetTime(ById(mLocal.classrooms, id).updatedAt)

\* C1 as stated: for a classroom id present on both sides, every student and
\* every lesson of either side's copy appears by id in the merged classroom,
\* whichever side's classroom is later
C1_Original ==
  \A k \in DOMAIN mCalls : \A id \in BothSides :
    LET lc == ById(mLocal.classrooms, id)
        rc == ById(mRemote.classrooms, id)
        mc == ById(mCalls[k].out.classrooms, id)
    IN /\ Ids(lc.students) \cup Ids(rc.students) \subseteq Ids(mc.students)
       /\ Ids(lc.lessons) \cup Ids(rc.lessons) \subseteq Ids(mc.lessons)

\* C1 amended: every student and lesson of the local copy appears by id in the
\* merged classroom; those of the remote copy appear when the remote
\* classroom's updatedAt is strictly later, and otherwise the merged classroom
\* has exactly the local copy's students and lessons
C1_LocalKeptRemoteWhenNewer ==
  \A k \in DOMAIN mCalls : \A id \in BothSides :
    LET lc == ById(mLocal.classrooms, id)
        rc == ById(mRemote.classrooms, id)
        mc == ById(mCalls[k].out.classrooms, id)
    IN /\ Ids(lc.students) \subseteq Ids(mc.students)
       /\ Ids(lc.lessons) \subseteq Ids(mc.lessons)
       /\ RemoteNewer(id) =>
            /\ Ids(rc.students) \subseteq Ids(mc.students)
            /\ Ids(rc.lessons) \subseteq Ids(mc.lessons)
       /\ ~RemoteNewer(id) =>
            /\ Ids(mc.students) = Ids(lc.students)
            /\ Ids(mc.lessons) = Ids(lc.lessons)

C1_Witness ==
  /\ mCalls # <<>>
  /\ \E id \in BothSides :
       /\ RemoteNewer(id)
       /\ Ids(ById(mRemote.classrooms, id).students) \ Ids(ById(mLocal.classrooms, id).students) # {}
       /\ Ids(ById(mLocal.classrooms, id).students) \ Ids(ById(mRemote.classrooms, id).students) # {}

\* C2: the classroom ids of the result are the union of both sides' ids, a
\* classroom held by one side only is that side's copy, and with disjoint id
\* sets the swapped call gives the same union
C2_ClassroomIdUnion ==
  \A k \in DOMAIN mCalls :
    LET out == mCalls[k].out.classrooms
        l == mLocal.classrooms
        r == mRemote.classrooms
    IN /\ Ids(out) = Ids(l) \cup Ids(r)
       /\ Len(out) = Cardinality(Ids(out))
       /\ \A id \in Ids(l) \ Ids(r) : ById(out, id) = ById(l, id)
       /\ \A id \in Ids(r) \ Ids(l) : ById(out, id) = ById(r, id)
       /\ Ids(l) \cap Ids(r) = {} => Ids(mCalls[k].swapped.classrooms) = Ids(l) \cup Ids(r)

C2_Witness ==
  /\ mCalls # <<>>
  /\ Ids(mLocal.classrooms) = {"c1"}
  /\ Ids(mRemote.classrooms) = {"c2"}
  /\ Ids(mCalls[1].out.classrooms) = {"c1", "c2"}

TopLevel(c) == <<c.name, c.columns, c.nextSid, c.nextLid, c.nextCid, c.updatedAt>>

\* C3: for an id on both sides the result has the top-level fields of the
\* strictly later side, the whole local classroom on equal timestamps, and a
\* missing updatedAt counts as the epoch and loses
C3_TimestampTieBreak ==
  \A k \in DOMAIN mCalls : \A id \in BothSides :
    LET lc == ById(mLocal.classrooms, id)
        rc == ById(mRemote.classrooms, id)
        mc == ById(mCalls[k].out.classrooms, id)
        lt == IF lc.updatedAt = Undefined THEN 0 ELSE lc.updatedAt
        rt == IF rc.updatedAt = Undefined THEN 0 ELSE rc.updatedAt
    IN /\ rt > lt => TopLevel(mc) = TopLevel(rc)
       /\ lt > rt => TopLevel(mc) = TopLevel(lc)
       /\ lt = rt => mc = lc
       /\ (rc.updatedAt = Undefined) => mc = lc
       /\ (lc.updatedAt = Undefined /\ rc.updatedAt # Undefined) => TopLevel(mc) = TopLevel(rc)

C3_Witness ==
  /\ mCalls # <<>>
  /\ \E id \in BothSides :
       /\ ById(mLocal.classrooms, id).updatedAt = Undefined
       /\ ById(mRemote.classrooms, id).updatedAt = 1
       /\ ById(mCalls[1].out.classrooms, id).name = "remote"

\* the by-id union of two arrays: one side's copy for an id held by one side,
\* the strictly later copy for an id held by both, the local one on ties
IsUnionById(m, l, r) ==
  /\ Ids(m) = Ids(l) \cup Ids(r)
  /\ Len(m) = Cardinality(Ids(m))
  /\ \A id \in Ids(l) \ Ids(r) : ById(m, id) = ById(l, id)
  /\ \A id \in Ids(r) \ Ids(l) : ById(m, id) = ById(r, id)
  /\ \A id \in Ids(l) \cap Ids(r) :
       LET li == ById(l, id)
           ri == ById(r, id)
           lt == IF li.updatedAt = Undefined THEN 0 ELSE li.updatedAt
           rt == IF ri.updatedAt = Undefined THEN 0 ELSE ri.updatedAt
       IN ById(m, id) = IF rt > lt THEN ri ELSE li

\* C4: under a strictly newer remote classroom the merged students and
\* lessons are the by-id union of both sides
C4_ChildrenUnion ==
  \A k \in DOMAIN mCalls : \A id \in BothSides :
    LET lc == ById(mLocal.classrooms, id)
        rc == ById(mRemote.classrooms, id)
        mc == ById(mCalls[k].out.classrooms, id)
    IN RemoteNewer(id) =>
         /\ IsUnionById(mc.students, lc.students, rc.students)
         /\ IsUnionById(mc.lessons, lc.lessons, rc.lessons)

C4_Witness ==
  /\ mCalls # <<>>
  /\ \E id \in BothSides :
       /\ RemoteNewer(id)
       /\ Ids(ById(mLocal.classrooms, id).students) = {1}
       /\ Ids(ById(mRemote.classrooms, id).students) = {1, 2}
       /\ ById(ById(mLocal.classrooms, id).students, 1).updatedAt
            = ById(ById(mRemote.classrooms, id).students, 1).updatedAt
       /\ Ids(ById(mCalls[1].out.classrooms, id).students) = {1, 2}
       /\ ById(ById(mCalls[1].out.classrooms, id).students, 1).from = "local"

\* C5 as stated: mergeData(X, X) is structurally equal to X for a valid
\* snapshot X (one whose nextId is set)
C5_Original ==
  \A k \in DOMAIN mCalls : mLocal.nextId >= 1 => mCalls[k].self = mLocal

\* C6 as stated: two calls on the same inputs return equal results, whatever
\* the wall-clock time of each call
C6_Original ==
  Len(mCalls) = 2 => mCalls[1].out = mCalls[2].out

(* ---------------------- claims about the application ------------------- *)
\* C7 as stated: at most one syncWithCloud pull-merge-push-persist sequence
\* is in flight at any time
C7_Original == Len(syncTasks) <= 1

\* arr.find(i => i.id === id): the first element with that id, as <<element>>,
\* or <<>> when the scan finds none
Find(arr, id) ==
  LET hits == {i \in DOMAIN arr : arr[i].id = id}
  IN IF hits = {} THEN <<>>
     ELSE <<arr[CHOOSE i \in hits : \A j \in hits : i <= j]>>

ScanStudent(classId, sid) ==
  LET c == Find(DB.classrooms, classId)
  IN IF c = <<>> THEN <<>> ELSE Find(c[1].students, sid)

ScanLesson(classId, lid) ==
  LET c == Find(DB.classrooms, classId)
  IN IF c = <<>> THEN <<>> ELSE Find(c[1].lessons, lid)

ScanColumn(classId, cid) ==
  LET c == Find(DB.classrooms, classId)
  IN IF c = <<>> THEN <<>> ELSE Find(c[1].columns, cid)

\* C8: after any sequence of the create, update and delete handlers of
\* classrooms, students, lessons and columns, once each handler has returned,
\* getC, getStudent, getLesson and getColumn return for every id the entity
\* that a linear scan of DB.classrooms finds, and undefined when it finds none
C8_IndexMatchesScan ==
  \A classId \in 0..(MaxClasses + 1) : \A id \in 0..(MaxCid + 1) :
    /\ getC(classId) = Find(DB.classrooms, classId)
    /\ getStudent(classId, id) = ScanStudent(classId, id)
    /\ getLesson(classId, id) = ScanLesson(classId, id)
    /\ getColumn(classId, id) = ScanColumn(classId, id)

\* a classroom whose lesson was created and deleted again while it holds a
\* student and a column, both found through the index
C8_Witness ==
  \E i \in DOMAIN DB.classrooms :
    LET c == DB.classrooms[i]
    IN /\ c.nextLid > 1 /\ c.lessons = <<>>
       /\ c.students # <<>> /\ c.columns # <<>>
       /\ getStudent(c.id, c.students[1].id) = <<c.students[1]>>
       /\ getColumn(c.id, c.columns[1].id) = <<c.columns[1]>>
       /\ getLesson(c.id, 1) = <<>>

\* a step in which the k-th sync in flight ends after one of its remote calls
\* has answered with an error: the pull, the push, or both
SyncEndsAfterFailure(k) ==
  \/ SyncPullReturn(k, "error") /\ Len(syncTasks') < Len(syncTasks)
  \/ SyncPushReturn(k, "error")
  \/ syncTasks[k].failed /\ SyncPushReturn(k, "ok")

\* C9 as stated: a sync of which a step has failed ends with syncStatus
\* 'error' and one more pending-change marker in DB.pendingChanges
C9_Original ==
  [][\A k \in DOMAIN syncTasks :
       SyncEndsAfterFailure(k)
       => (/\ DB'.syncStatus = "error"
           /\ Len(DB'.pendingChanges) = Len(DB.pendingChanges) + 1)]_vars

C11_Original ==
  [][\A k \in DOMAIN saveTasks :
       SavePushReturn(k, "error")
       => Len(DB'.pendingChanges) = Len(DB.pendingChanges) + 1]_vars

\* C12 as stated: a save operation that runs without connectivity for a
\* remote-backed user enqueues a pending-change marker and makes no remote call
C12_Original ==
  [][(saveRuns' # saveRuns /\ ~onLine /\ DB'.user.mode = "supabase")
     => (/\ Len(DB'.pendingChanges) = Len(DB.pendingChanges) + 1
         /\ saveTasks' = saveTasks)]_vars

(* ----------------------- claims about the debounce --------------------- *)
\* C13: the non-immediate saveDB calls made while the 150 ms timer is pending
\* share one timer, whose firing is one execution of the save operation and
\* so one local persistence write; each immediate saveDB call is its own
\* execution and write. Counted over a run: the writes are as many as the
\* immediate calls and the timer firings together, and every window of
\* non-immediate calls has fired once, was ended by an immediate call, or is
\* still open with its one timer pending
C13_DebounceCoalesces ==
  /\ deb.writes = deb.imm + deb.fires
  /\ deb.wins = deb.fires + deb.pre + (IF _st.armed THEN 1 ELSE 0)
  /\ _st.armed <=> deb.non > 0

\* a window of two or more non-immediate calls has fired, immediate calls
\* were made, and the writes are one for the window and one for each of them
C13_Witness ==
  /\ deb.last >= 2 /\ deb.fires = 1 /\ deb.imm = 2 /\ deb.writes = 3

(* ------------------- claims about the pending-change queue ------------- *)
\* the last n elements of the sequence s
LastOf(s, n) == SubSeq(s, Len(s) - n + 1, Len(s))

\* C14: starting from an empty queue, after any number of
\* queuePendingChanges calls DB.pendingChanges holds at most 50 markers, and
\* they are the most recently enqueued ones in the order of their enqueuing
C14_QueueKeepsLatest ==
  /\ Len(DB.pendingChanges) <= MAX_PENDING
  /\ DB.pendingChanges =
       LastOf(qLog, IF Len(qLog) > MAX_PENDING THEN MAX_PENDING ELSE Len(qLog))

\* after 60 enqueues exactly 50 markers remain and the 10 oldest are gone
C14_Witness ==
  /\ Len(qLog) = 60
  /\ Len(DB.pendingChanges) = 50
  /\ DB.pendingChanges[1] = qLog[11]
  /\ \A i \in 1..10 : \A j \in 1..50 : DB.pendingChanges[j] # qLog[i]

\* C15 as stated: the most recently enqueued marker is the first element of
\* DB.pendingChanges
C15_Original ==
  DB.pendingChanges # <<>> => DB.pendingChanges[1] = qLog[Len(qLog)]

(* ----------------------- claims about the storage slots ---------------- *)
\* a slot that is present and parses
Good(slot) == slot # <<>> /\ Parses(slot[1])

\* C16 as stated: loadFromLocalStorage returns the primary slot's snapshot
\* when it is present and parses, the backup slot's snapshot when the primary
\* is absent or does not parse, and no data only when both fail
C16_Original ==
  \A k \in DOMAIN loaded :
    LET main == loaded[k].slots.main
        backup == loaded[k].slots.backup
    IN loaded[k].data = IF Good(main) THEN main
                        ELSE IF Good(backup) THEN backup ELSE <<>>

\* C17 as stated: after a saveToLocalStorage call on slots that were
\* identical, one in which a storage write throws included, the primary and
\* the backup slot hold identical snapshots
C17_Original ==
  [][(/\ localStorage.main = localStorage.backup
      /\ \E fault \in WriteFaults : StorageWrite(fault))
     => localStorage'.main = localStorage'.backup]_vars

(* ------------------------- claims about the ids ------------------------ *)
\* no two elements of the array share an id
UniqueIds(arr) ==
  \A i \in DOMAIN arr : \A j \in DOMAIN arr : i # j => arr[i].id # arr[j].id

\* C18 as stated: after any sequence of local creations and sync merges no
\* two classrooms share an id, and no two students, no two lessons and no two
\* columns of one classroom share an id
C18_Original ==
  /\ UniqueIds(DB.classrooms)
  /\ \A i \in DOMAIN DB.classrooms :
       /\ UniqueIds(DB.classrooms[i].students)
       /\ UniqueIds(DB.classrooms[i].lessons)
       /\ UniqueIds(DB.classrooms[i].columns)

(* ------------------------ claims about attendance ---------------------- *)
\* the lessons of the open classroom that count for the student sid
CountedFor(sid) ==
  {k \in DOMAIN CC[1].lessons :
     ~Has(CC[1].lessons[k], "studentIds") \/ Includes(CC[1].lessons[k].studentIds, sid)}

\* the lesson has no att_ entry for sid
NoEntry(l, sid) == ~(Has(l, "data") /\ sid \in DOMAIN l.data)

\* the totals of studentStats(sid) agree
StatsAgree(sid) ==
  LET st == studentStats(sid)
  IN /\ st.total = Cardinality(CountedFor(sid))
     /\ st.present + st.late + st.absent = st.total
     /\ st.attended = st.present + st.late
     /\ st.present = Cardinality({k \in CountedFor(sid) :
                        \/ NoEntry(CC[1].lessons[k], sid)
                        \/ CC[1].lessons[k].data[sid] = "present"})

\* setAtt(sid, 'absent') on the open lesson, which counts for sid and has no
\* entry for sid, moves one lesson from present to absent
AbsentMoves(sid) ==
  (/\ setAtt(sid, "absent")
   /\ ~Has(CL[1], "studentIds") \/ Includes(CL[1].studentIds, sid)
   /\ NoEntry(CL[1], sid))
  => LET before == studentStats(sid)
         after == studentStats(sid)'
     IN /\ after.present = before.present - 1
        /\ after.absent = before.absent + 1
        /\ after.late = before.late
        /\ after.total = before.total

\* C19: for the open classroom and every student id, studentStats returns a
\* total equal to the number of lessons whose studentIds is absent or holds
\* the id, present + late + absent equal to the total, attended equal to
\* present + late, and counts a lesson without an att_ entry as present;
\* setAtt(sid, 'absent') on such a lesson lowers present by one and raises
\* absent by one with the total unchanged
C19_StudentStats ==
  /\ [](\A sid \in 0..(MaxStatStudents + 1) : StatsAgree(sid))
  /\ [][\A sid \in 1..MaxStatStudents : AbsentMoves(sid)]_vars

\* student 1 was marked absent in the open lesson, which had no entry, and
\* is counted present in the other lesson, which has none
C19_Witness ==
  /\ CL # <<>> /\ CL[1].updatedAt = now
  /\ CL[1].data = (1 :> "absent")
  /\ studentStats(1) = [present |-> 1, late |-> 0, absent |-> 1,
                        attended |-> 1, total |-> 2]

(* ---------------------- claims about the chunked fetch ----------------- *)
\* the loop has ended
FetchDone == fetch # <<>> /\ fetch.i >= Len(fetch.lessonIds)

RECURSIVE Concat(_)
Concat(seqs) == IF seqs = <<>> THEN <<>> ELSE Head(seqs) \o Concat(Tail(seqs))

\* a and b hold the same rows, each as often
SameRows(a, b) ==
  /\ Len(a) = Len(b)
  /\ \A r \in Range(a) \cup Range(b) :
       Cardinality({i \in DOMAIN a : a[i] = r}) = Cardinality({i \in DOMAIN b : b[i] = r})

\* C20: the loop of loadUserDataFromSupabase queries grades and attendance in
\* consecutive chunks of at most BATCH_SIZE lesson ids: ceil(n / BATCH_SIZE)
\* queries per table for n ids, every id in exactly one chunk, and, the
\* queries answered, the concatenated rows are those of one query over all ids
C20_ChunkedFetch ==
  FetchDone =>
    LET n == Len(fetch.lessonIds)
        chunks == (n + BATCH_SIZE - 1) \div BATCH_SIZE
    IN /\ Len(fetch.batches) = chunks
       /\ fetch.gradeQueries = chunks /\ fetch.attendanceQueries = chunks
       /\ \A k \in DOMAIN fetch.batches :
            /\ Len(fetch.batches[k]) <= BATCH_SIZE
            /\ Len(fetch.batches[k]) >= 1
       /\ Concat(fetch.batches) = fetch.lessonIds
       /\ \A id \in Range(fetch.lessonIds) :
            Cardinality({k \in DOMAIN fetch.batches : id \in Range(fetch.batches[k])}) = 1
       /\ ~fetch.failed =>
            /\ SameRows(fetch.grades, SelectIn(fetch.gradesTable, fetch.lessonIds))
            /\ SameRows(fetch.attendance, SelectIn(fetch.attendanceTable, fetch.lessonIds))

\* 60 lesson ids were fetched in chunks of 25, 25 and 10, and rows came back
C20_Witness ==
  /\ FetchDone /\ ~fetch.failed
  /\ Len(fetch.lessonIds) = 60
  /\ [k \in DOMAIN fetch.batches |-> Len(fetch.batches[k])] = <<25, 25, 10>>
  /\ fetch.gradeQueries = 3 /\ fetch.attendanceQueries = 3
  /\ Len(fetch.grades) = 60 /\ Len(fetch.attendance) = 60
  /\ fetch.lessonIds[1] = 60

(* ------------------- claims about replacing the store ------------------ *)
\* C21 as stated: once a handler that replaced the store has returned and the
\* screens are shown again, every classroom lookup through the index returns
\* the classroom a scan of DB.classrooms finds, and undefined when it finds none
C21_Original ==
  Entered => \A classId \in 0..(OtherClassId + 1) :
               getC(classId) = Find(DB.classrooms, classId)

(* --------------------- claims about conflict handling ------------------ *)
\* C22 as stated: a sync that has set syncStatus to 'syncing' goes on to
\* 'idle' or 'error' once its remote calls return, so none waits for a click
\* in the conflict dialog
C22_Original ==
  \A k \in DOMAIN syncTasks :
    syncTasks[k].pc = "dialog" => ~syncTasks[k].modal

\* the step in which the dialog of the k-th sync is answered with resolution
\* for its only conflict
Answered(k, resolution) ==
  /\ ConflictResolve(k, resolution)
  /\ syncTasks[k].modal
  /\ Len(syncTasks[k].conflicts) = 1

\* the row saveUserDataToSupabase pushes for the classroom object c
RowOf(c) == PushRows(<<c>>)[1]

\* C23 as stated: when the conflict of a classroom is resolved as 'cloud' the
\* store after the sync and the rows pushed hold the cloud copy of that
\* classroom, and when it is resolved as 'local' they hold the local copy
C23_Original ==
  [][\A k \in DOMAIN syncTasks : \A resolution \in {"local", "cloud"} :
       Answered(k, resolution)
       => LET conflict == Head(syncTasks[k].conflicts)
              copy == IF resolution = "cloud" THEN conflict.cloud ELSE conflict.local
          IN /\ MapHas(DB'.classrooms, conflict.id)
             /\ MapGet(DB'.classrooms, conflict.id) = copy
             /\ MapGet(syncTasks'[k].rows, conflict.id) = RowOf(copy)]_vars

\* C29 as stated: a classroom created while a sync is suspended is still in
\* the store when the sync completes: while a sync is in flight no step other
\* than a confirmed deletion takes a classroom out of DB.classrooms
C29_Original ==
  [][(syncTasks # <<>> /\ ~confirmOk)
     => Ids(DB.classrooms) \subseteq Ids(DB'.classrooms)]_vars

(* ------------------- claims about lessons and columns ------------------ *)
\* the step in which the confirmed deletion of a lesson of the open classroom
\* runs
DelLessonStep ==
  /\ confirmOk
  /\ confirmCb.kind = "delLesson"
  /\ Find(DB.classrooms, CID) # <<>>
  /\ CC # <<>>

\* the deletion of lesson lid leaves no column of lid and no lesson lid in the
\* open classroom, keeps every other lesson and column of it as it was and in
\* order, and leaves the other classrooms alone
LessonDeleted ==
  LET lid == confirmCb.arg
      c == Find(DB.classrooms, CID)[1]
      after == Find(DB'.classrooms, CID)
  IN /\ after # <<>>
     /\ \A i \in DOMAIN after[1].columns : after[1].columns[i].lessonId # lid
     /\ \A i \in DOMAIN after[1].lessons : after[1].lessons[i].id # lid
     /\ after[1].columns = SelectSeq(c.columns, LAMBDA col : col.lessonId # lid)
     /\ after[1].lessons = SelectSeq(c.lessons, LAMBDA ls : ls.id # lid)
     /\ Len(DB'.classrooms) = Len(DB.classrooms)
     /\ \A i \in DOMAIN DB.classrooms :
          DB.classrooms[i].id # CID => DB'.classrooms[i] = DB.classrooms[i]

\* every column that has a lessonId names a lesson of its classroom
ColumnsHaveLessons ==
  \A i \in DOMAIN DB.classrooms :
    LET c == DB.classrooms[i]
    IN \A j \in DOMAIN c.columns :
         c.columns[j].lessonId # Undefined => c.columns[j].lessonId \in Ids(c.lessons)

StudentIdsKept(i) ==
  LET c == DB.classrooms[i]
      c2 == DB'.classrooms[i]
  IN \A j \in DOMAIN c.lessons :
       /\ j \in DOMAIN c2.lessons
       /\ c2.lessons[j].id = c.lessons[j].id
       /\ c2.lessons[j].studentIds = c.lessons[j].studentIds

\* C25 as stated: a step that adds a student to a classroom (saveStudent in
\* add mode, quickAddStudentToLesson) leaves the studentIds of every lesson
\* the classroom already has as they were
C25_Original ==
  [][\A i \in DOMAIN DB.classrooms :
       (/\ i \in DOMAIN DB'.classrooms
        /\ DB'.classrooms[i].id = DB.classrooms[i].id
        /\ Len(DB'.classrooms[i].students) > Len(DB.classrooms[i].students))
       => StudentIdsKept(i)]_vars

(* -------------------- claims about a sync with no news ----------------- *)
\* what saveUserDataToSupabase writes of a row, its time stamp aside
RowData(row) ==
  [id |-> row.id, name |-> row.name, next_student_id |-> row.next_student_id,
   next_lesson_id |-> row.next_lesson_id, next_column_id |-> row.next_column_id]

\* a push of the store as it is has completed: the classrooms table holds
\* the rows saveUserDataToSupabase writes for DB.classrooms
PushCompleted ==
  /\ cloud.tables
  /\ DB.classrooms # <<>>
  /\ [i \in DOMAIN cloud.classrooms |-> RowData(cloud.classrooms[i])]
       = [i \in DOMAIN DB.classrooms |-> RowData(PushRows(DB.classrooms)[i])]

\* the ids, students, lessons, columns and id counters of the classrooms
Contents(classrooms) ==
  [i \in DOMAIN classrooms |->
     [id |-> classrooms[i].id, students |-> classrooms[i].students,
      lessons |-> classrooms[i].lessons, columns |-> classrooms[i].columns,
      nextSid |-> classrooms[i].nextSid, nextLid |-> classrooms[i].nextLid,
      nextCid |-> classrooms[i].nextCid]]

\* C26 as stated: on a single device whose account has no other writer, the
\* merge of a sync that follows a completed push leaves DB.classrooms with
\* the same ids, students, lessons, columns and id counters
C26_Original ==
  [][\A k \in DOMAIN syncTasks :
       (PushCompleted /\ SyncPullReturn(k, "ok"))
       => Contents(DB'.classrooms) = Contents(DB.classrooms)]_vars

(* ------------------------ claims about reloading ----------------------- *)
\* C27 as stated: the snapshot loadDB restores on a reload never has
\* syncStatus 'syncing', so the first syncWithCloud after the reload is not
\* skipped by the in-progress check
C27_Original ==
  [][(\E online \in BOOLEAN : PageReload(online)) => DB'.syncStatus # "syncing"]_vars

(* --------------------- claims about the pending queue ------------------ *)
\* a push returns to saveDB or to syncWithCloud after a row write has failed,
\* or after its early return because the tables are missing
FailedPushReturn ==
  \/ \E k \in DOMAIN saveTasks : SavePushReturn(k, "error")
  \/ \E k \in DOMAIN syncTasks : SyncPushReturn(k, "error")
  \/ /\ ~cloud.tables
     /\ \/ \E k \in DOMAIN saveTasks : SavePushReturn(k, "ok")
        \/ \E k \in DOMAIN syncTasks : SyncPushReturn(k, "ok")

\* C28 as stated: DB.pendingChanges is emptied only after a push in which
\* every row write succeeded: when a classroom write fails or the push
\* returns early, neither saveDB nor syncWithCloud clears the queue
C28_Original ==
  [][(FailedPushReturn /\ DB.pendingChanges # <<>>) => DB'.pendingChanges # <<>>]_vars

(* -------------------- claims about eventual persistence ---------------- *)
\* both slots of the local storage hold the store as it is
Persisted == localStorage = [main |-> <<DB>>, backup |-> <<DB>>]

\* a step that holds a saveDB(badge, true) call
ImmediateSave == authSubmit \/ confirmOk

====
